---- MODULE Spec2Model ----
(***************************************************************************)
(* The authenticated-call executor of the Spotify MCP server:              *)
(*   SpotifyAuth (src/src/auth.ts)            token lifecycle              *)
(*   SpotifyApiClient.executeWithRetry        retry / backoff loop         *)
(*   SpotifyApiClient.handleError             error classification         *)
(* Times are milliseconds, as in the source (Date.now(), setTimeout).      *)
(* JavaScript `undefined` is 0 for numbers, "" for strings and <<>> for    *)
(* header values: each is falsy in the source's `||` and `?:` tests.       *)
(***************************************************************************)
EXTENDS Integers, Sequences, FiniteSets, TLC

(***************************************************************************)
(* Bounds of the model.                                                    *)
(***************************************************************************)
\* largest maxRetries a client is constructed with
MaxRetriesBound == 3
\* how many times the wall clock advances
MaxTicks == 1

AllRuns == {1, 2}

(***************************************************************************)
(* auth.ts                                                                 *)
(***************************************************************************)
\* tokenMetadata: TokenMetadata | null = null
null == [isNull |-> TRUE]

\* const expirationBuffer = 60 * 1000
expirationBuffer == 60 * 1000

\* the clock advances in steps of half the buffer
TickMs == expirationBuffer \div 2

\* access tokens and refresh tokens the remote hands out, expires_in in seconds
AccessTokens == {"at1", "at2"}
NewRefreshTokens == {"", "rt2"}
ConfigRefreshTokens == {"", "rt1"}
ExpiresIn == {60, 90}

TokenBodies ==
  [access_token : AccessTokens, expires_in : ExpiresIn, refresh_token : NewRefreshTokens]

\* a plain Error thrown by auth.ts
PlainError(msg) ==
  [name |-> "Error", message |-> msg, statusCode |-> 0, originalError |-> null]

NoRefreshTokenError ==
  PlainError("No refresh token available. Please authorize the application first.")

NoAccessTokenError ==
  PlainError("No access token available. Please authorize the application first.")

RefreshFailedError(msg) == PlainError("Failed to refresh access token: " \o msg)

ExchangeFailedError(msg) ==
  PlainError("Failed to exchange authorization code for token: " \o msg)

\* messages of the remote's rejections of a refresh or an exchange
RemoteAuthFailures == {"invalid_grant"}

\* a seeded credential taken for one that is still fresh
AuthConstructed_Fresh(refreshToken) ==
  IF refreshToken # ""
  THEN [accessToken |-> "", refreshToken |-> refreshToken, expiresAt |-> 3600000]
  ELSE null

\* constructor(config)
AuthConstructed(refreshToken) ==
  IF refreshToken # ""
  THEN [accessToken |-> "", refreshToken |-> refreshToken, expiresAt |-> 0]
  ELSE null

\* every credential taken for expired: a refresh before every call
isTokenExpired_Always(meta, clock) == TRUE

\* no buffer: expired only once expiresAt has passed
isTokenExpired_NoBuffer(meta, clock) ==
  IF meta = null
  THEN TRUE
  ELSE clock >= meta.expiresAt

\* a buffer that leaves out the boundary itself
isTokenExpired_Strict(meta, clock) ==
  IF meta = null
  THEN TRUE
  ELSE clock > meta.expiresAt - expirationBuffer

\* isTokenExpired()
isTokenExpired(meta, clock) ==
  IF meta = null
  THEN TRUE
  ELSE clock >= meta.expiresAt - expirationBuffer

\* a refresh attempted whatever is held
HasRefreshToken_Unguarded(meta) == TRUE

\* refreshAccessToken(): the guard before the request is sent
HasRefreshToken(meta) ==
  IF meta = null THEN FALSE ELSE meta.refreshToken # ""

\* the response's refresh token taken as it is, omitted or not
RefreshedRefreshToken_Dropped(body, meta) == body.refresh_token

\* refreshAccessToken(): tokenResponse.refresh_token
RefreshedRefreshToken(body, meta) ==
  IF body.refresh_token # "" THEN body.refresh_token ELSE meta.refreshToken

\* the expiry computed without the factor 1000
RefreshedMetadata_Seconds(body, meta, clock) ==
  [accessToken |-> body.access_token,
   refreshToken |-> RefreshedRefreshToken(body, meta),
   expiresAt |-> clock + body.expires_in]

\* refreshAccessToken(): the metadata stored when the response arrives
RefreshedMetadata(body, meta, clock) ==
  [accessToken |-> body.access_token,
   refreshToken |-> RefreshedRefreshToken(body, meta),
   expiresAt |-> clock + body.expires_in * 1000]

\* a refresh that leaves the API client with the access token it had
RefreshedApi_StaleAccessToken(body, meta, clock, api) ==
  [accessToken |-> api.accessToken, refreshToken |-> api.refreshToken]

\* refreshAccessToken(): the credentials of the underlying API client; the
\* refresh token is compared with the metadata that was just replaced
RefreshedApi(body, meta, clock, api) ==
  LET newMeta == RefreshedMetadata(body, meta, clock)
      respToken == RefreshedRefreshToken(body, meta)
  IN [accessToken |-> body.access_token,
      refreshToken |-> IF respToken # newMeta.refreshToken
                       THEN respToken
                       ELSE api.refreshToken]

\* expires_in taken for milliseconds
ExchangedMetadata_Milliseconds(body, clock) ==
  [accessToken |-> body.access_token,
   refreshToken |-> body.refresh_token,
   expiresAt |-> clock + body.expires_in]

\* exchangeCodeForToken(): the metadata stored when the response arrives
ExchangedMetadata(body, clock) ==
  [accessToken |-> body.access_token,
   refreshToken |-> body.refresh_token,
   expiresAt |-> clock + body.expires_in * 1000]

\* ensureValidToken(): the check after the freshness test
HasAccessToken(meta) ==
  IF meta = null THEN FALSE ELSE meta.accessToken # ""

(***************************************************************************)
(* spotify_api.ts: retry configuration                                     *)
(***************************************************************************)
DEFAULT_RETRY_CONFIG ==
  [maxRetries |-> 3, initialDelayMs |-> 1000, maxDelayMs |-> 10000,
   backoffMultiplier |-> 2]

\* Partial<RetryConfig> overrides a client may be constructed with
DelayOverrides ==
  { [initialDelayMs |-> 1000, maxDelayMs |-> 10000, backoffMultiplier |-> 2],
    [initialDelayMs |-> 1000, maxDelayMs |-> 1500, backoffMultiplier |-> 2],
    [initialDelayMs |-> 500, maxDelayMs |-> 10000, backoffMultiplier |-> 1] }

\* constructor: { ...DEFAULT_RETRY_CONFIG, ...retryConfig }
RetryConfigs ==
  { [maxRetries |-> m, initialDelayMs |-> d.initialDelayMs,
     maxDelayMs |-> d.maxDelayMs, backoffMultiplier |-> d.backoffMultiplier] :
      m \in 0..MaxRetriesBound, d \in DelayOverrides }

(***************************************************************************)
(* spotify_api.ts: failures of the wrapped operation                       *)
(***************************************************************************)
\* what operation() rejects with: error.statusCode, error.body.error.status,
\* error.headers['retry-after'], error.body.error.message, error.message
Failure(s, b, h, bm, m) ==
  [statusCode |-> s, bodyStatus |-> b, retryAfter |-> h, bodyMessage |-> bm,
   message |-> m]

OperationFailures ==
  { Failure(401, 0, <<>>, "", "Unauthorized"),
    Failure(429, 0, <<>>, "", "Rate limited"),
    Failure(429, 429, <<"2">>, "Rate limited", ""),
    Failure(503, 0, <<>>, "", "Service unavailable"),
    Failure(503, 0, <<"2">>, "", "Service unavailable"),
    Failure(404, 404, <<>>, "Not found", ""),
    Failure(0, 403, <<>>, "Forbidden", ""),
    Failure(500, 0, <<>>, "", "Internal error"),
    Failure(504, 0, <<>>, "", "Gateway timeout"),
    Failure(0, 0, <<>>, "", "") }

OperationResults == {"result1", "result2"}

\* const statusCode = error?.statusCode || error?.body?.error?.status
StatusCodeOf(error) ==
  IF error.statusCode # 0 THEN error.statusCode ELSE error.bodyStatus

\* parseInt(retryAfter) on a header value given as its characters
DigitChars == <<"0", "1", "2", "3", "4", "5", "6", "7", "8", "9">>

IsDigit(c) == \E i \in 1..10 : DigitChars[i] = c

DigitValue(c) == (CHOOSE i \in 1..10 : DigitChars[i] = c) - 1

RECURSIVE LeadingDigits(_)
LeadingDigits(s) ==
  IF s = <<>> \/ ~IsDigit(Head(s)) THEN <<>> ELSE <<Head(s)>> \o LeadingDigits(Tail(s))

RECURSIVE DecimalValue(_, _)
DecimalValue(acc, s) ==
  IF s = <<>> THEN acc ELSE DecimalValue(acc * 10 + DigitValue(Head(s)), Tail(s))

\* NaN is not a number: it is kept apart from every wait the arithmetic gives
NaN == 0 - 1

parseInt(s) ==
  IF LeadingDigits(s) = <<>> THEN NaN ELSE DecimalValue(0, LeadingDigits(s))

Min(a, b) == IF a <= b THEN a ELSE b

\* for (;;): no condition ever leaves the loop
LoopCondition_Unbounded(a, cfg) == TRUE

\* for (...; attempt <= this.retryConfig.maxRetries; ...)
LoopCondition(a, cfg) == a <= cfg.maxRetries

\* a loop whose `continue` skips the increment
NextAttempt_NoIncrement(a) == a

\* for (...; ...; attempt++), reached by every `continue`
NextAttempt(a) == a + 1

\* if (statusCode === 401)
IsAuthExpired(statusCode) == statusCode = 401

\* the retry guard one attempt short
ShouldBackoff_OneShort(statusCode, a, cfg) ==
  /\ statusCode \in {429, 503}
  /\ a < cfg.maxRetries - 1

\* the guard off by one: attempt <= maxRetries
ShouldBackoff_Inclusive(statusCode, a, cfg) ==
  /\ statusCode \in {429, 503}
  /\ a <= cfg.maxRetries

\* the 429 and 503 branches without their attempt guard
ShouldBackoff_NoGuard(statusCode, a, cfg) == statusCode \in {429, 503}

\* every 5xx status retried, not 503 alone
ShouldBackoff_All5xx(statusCode, a, cfg) ==
  /\ statusCode = 429 \/ statusCode >= 500
  /\ a < cfg.maxRetries

\* if (statusCode === 429) { if (attempt < maxRetries) ... } and the same for 503
ShouldBackoff(statusCode, a, cfg) ==
  /\ statusCode \in {429, 503}
  /\ a < cfg.maxRetries

\* the retry-after header read on the 503 branch as well
HonoursRetryAfter_AnyStatus(error, statusCode) ==
  /\ statusCode \in {429, 503}
  /\ error.retryAfter # <<>>

\* the retry-after header is read on the 429 branch only
HonoursRetryAfter(error, statusCode) ==
  /\ statusCode = 429
  /\ error.retryAfter # <<>>

\* a hinted wait capped by maxDelayMs like a computed one
WaitTime_CappedHint(error, statusCode, d, cfg) ==
  IF error.retryAfter # <<>> /\ statusCode = 429
  THEN Min(DecimalValue(0, error.retryAfter) * 1000, cfg.maxDelayMs)
  ELSE Min(d, cfg.maxDelayMs)

\* const waitTime = retryAfter ? parseInt(retryAfter) * 1000 : Math.min(delay, maxDelayMs)
WaitTime(error, statusCode, d, cfg) ==
  IF HonoursRetryAfter(error, statusCode)
  THEN IF parseInt(error.retryAfter) = NaN THEN NaN ELSE parseInt(error.retryAfter) * 1000
  ELSE Min(d, cfg.maxDelayMs)

\* a delay that shrinks from wait to wait
NextDelay_Halved(d, cfg) == d \div 2

\* a delay that grows by addition
NextDelay_Additive(d, cfg) == d + cfg.initialDelayMs

\* delay *= this.retryConfig.backoffMultiplier
NextDelay(d, cfg) == d * cfg.backoffMultiplier

\* handleError(): const message = body.error.message || error.message || 'Unknown error'
RemoteMessage(error) ==
  IF error.bodyMessage # "" THEN error.bodyMessage
  ELSE IF error.message # "" THEN error.message
  ELSE "Unknown error"

\* every 5xx status given the wording of 500, 502 and 503
FriendlyMessage_All5xx(error, operationName) ==
  LET statusCode == StatusCodeOf(error)
  IN CASE statusCode = 401 -> "Authentication failed. Please re-authorize the application."
       [] statusCode = 403 -> "Access forbidden. You may not have the required permissions."
       [] statusCode = 404 -> "Resource not found. Please check the provided ID or URI."
       [] statusCode = 429 -> "Rate limit exceeded. Please try again later."
       [] statusCode >= 500 ->
            "Spotify service is temporarily unavailable. Please try again later."
       [] OTHER -> "Failed to " \o operationName \o ": " \o RemoteMessage(error)

\* handleError(): switch (statusCode)
FriendlyMessage(error, operationName) ==
  LET statusCode == StatusCodeOf(error)
  IN CASE statusCode = 401 -> "Authentication failed. Please re-authorize the application."
       [] statusCode = 403 -> "Access forbidden. You may not have the required permissions."
       [] statusCode = 404 -> "Resource not found. Please check the provided ID or URI."
       [] statusCode = 429 -> "Rate limit exceeded. Please try again later."
       [] statusCode \in {500, 502, 503} ->
            "Spotify service is temporarily unavailable. Please try again later."
       [] OTHER -> "Failed to " \o operationName \o ": " \o RemoteMessage(error)

\* handleError(error, operationName): new SpotifyApiError(friendlyMessage, statusCode, error)
handleError(error, operationName) ==
  [name |-> "SpotifyApiError", message |-> FriendlyMessage(error, operationName),
   statusCode |-> StatusCodeOf(error), originalError |-> error]

\* the operationName the tool methods pass
OperationName == "search tracks"

(***************************************************************************)
(* tools: the MCP tool handlers in front of the client                     *)
(* A string is the sequence of its parts; a number is NaN or an integer;   *)
(* an optional argument is passed or left out.                             *)
(***************************************************************************)
Num(n) == [nan |-> FALSE, n |-> n]
\* the number NaN an argument can be
NotANumber == [nan |-> TRUE, n |-> 0]

\* x < k and x > k of JavaScript: both false when x is NaN
Lt(x, k) == ~x.nan /\ x.n < k
Gt(x, k) == ~x.nan /\ x.n > k

Passed(v) == [given |-> TRUE, value |-> v]
NoString == [given |-> FALSE, value |-> <<>>]
NoNumber == [given |-> FALSE, value |-> Num(0)]

\* a parameter with a default value: limit: number = 10
DefaultParam(arg, d) == IF arg.given THEN arg.value ELSE d

\* !s of a string argument: undefined and "" are falsy
Not(s) == ~s.given \/ s.value = <<>>

RECURSIVE trimStart(_)
trimStart(s) == IF s # <<>> /\ Head(s) = " " THEN trimStart(Tail(s)) ELSE s

RECURSIVE trimEnd(_)
trimEnd(s) ==
  IF s # <<>> /\ s[Len(s)] = " " THEN trimEnd(SubSeq(s, 1, Len(s) - 1)) ELSE s

\* String.prototype.trim
trim(s) == trimEnd(trimStart(s))

\* String.prototype.startsWith
startsWith(s, prefix) ==
  /\ Len(s) >= Len(prefix)
  /\ SubSeq(s, 1, Len(prefix)) = prefix

\* 'spotify:track:'
TrackUriPrefix == <<"spotify", ":", "track", ":">>

\* const validActions: PlaybackAction[] = ['play', 'pause', 'next', 'previous']
validActions == <<"play", "pause", "next", "previous">>

\* Array.prototype.includes
includes(array, v) == \E i \in 1..Len(array) : array[i] = v

\* a handler up to its first suspension: it threw new Error(message) ...
Threw(message) == [error |-> [name |-> "Error", message |-> message], calls |-> <<>>]

\* ... or it called a method of the client and awaits it
Awaits(method, text, limit, action, deviceId) ==
  [error |-> null,
   calls |-> <<[method |-> method, text |-> text, limit |-> limit,
                action |-> action, deviceId |-> deviceId]>>]

\* searchTracks(client, query, limit = 10)
searchTracks(req) ==
  LET query == req.text
      limit == DefaultParam(req.limit, Num(10))
  IN  IF Not(query) \/ Len(trim(query.value)) = 0
      THEN Threw("Search query cannot be empty")
      ELSE IF Lt(limit, 1) \/ Gt(limit, 50)
      THEN Threw("Limit must be between 1 and 50")
      ELSE Awaits("searchTracks", query.value, limit, "", "")

\* playTrack(client, trackUri, deviceId?)
playTrack(req) ==
  LET trackUri == req.text
  IN  IF Not(trackUri) \/ ~startsWith(trackUri.value, TrackUriPrefix)
      THEN Threw("Invalid track URI. Must be in format: spotify:track:xxx")
      ELSE Awaits("playTrack", trackUri.value, Num(0), "", req.deviceId)

\* playbackControl(client, action, deviceId?)
playbackControl(req) ==
  IF ~includes(validActions, req.action)
  THEN Threw("Invalid action. Must be one of: play, pause, next, previous")
  ELSE Awaits("controlPlayback", <<>>, Num(0), req.action, req.deviceId)

\* getUserPlaylists(client, limit = 20)
getUserPlaylists(req) ==
  LET limit == DefaultParam(req.limit, Num(20))
  IN  IF Lt(limit, 1) \/ Gt(limit, 50)
      THEN Threw("Limit must be between 1 and 50")
      ELSE Awaits("getUserPlaylists", <<>>, limit, "", "")

\* getPlaylistTracks(client, playlistId, limit = 50)
getPlaylistTracks(req) ==
  LET playlistId == req.text
      limit == DefaultParam(req.limit, Num(50))
  IN  IF Not(playlistId) \/ Len(trim(playlistId.value)) = 0
      THEN Threw("Playlist ID cannot be empty")
      ELSE IF Lt(limit, 1) \/ Gt(limit, 100)
      THEN Threw("Limit must be between 1 and 100")
      ELSE Awaits("getPlaylistTracks", playlistId.value, limit, "", "")

\* addToQueue without its check of trackUri
addToQueue_Unchecked(req) ==
  Awaits("addToQueue", req.text.value, Num(0), "", req.deviceId)

\* addToQueue(client, trackUri, deviceId?)
addToQueue(req) ==
  LET trackUri == req.text
  IN  IF Not(trackUri) \/ ~startsWith(trackUri.value, TrackUriPrefix)
      THEN Threw("Invalid track URI. Must be in format: spotify:track:xxx")
      ELSE Awaits("addToQueue", trackUri.value, Num(0), "", req.deviceId)

\* the handler the request names
Handler(req) ==
  CASE req.name = "searchTracks" -> searchTracks(req)
    [] req.name = "playTrack" -> playTrack(req)
    [] req.name = "playbackControl" -> playbackControl(req)
    [] req.name = "getUserPlaylists" -> getUserPlaylists(req)
    [] req.name = "getPlaylistTracks" -> getPlaylistTracks(req)
    [] req.name = "addToQueue" -> addToQueue(req)

\* what a handler returns once the client's method resolved with `found` items
Response(req, found) ==
  CASE req.name = "searchTracks" ->
         IF found = 0 THEN "No tracks found for query" ELSE "Found tracks"
    [] req.name = "playTrack" ->
         IF req.deviceId # "" THEN "Successfully started playing track on device"
         ELSE "Successfully started playing track"
    [] req.name = "playbackControl" ->
         (CASE req.action = "play" -> "Resumed playback"
            [] req.action = "pause" -> "Paused playback"
            [] req.action = "next" -> "Skipped to next track"
            [] req.action = "previous" -> "Skipped to previous track")
    [] req.name = "getUserPlaylists" ->
         IF found = 0 THEN "No playlists found. Create some playlists in Spotify!"
         ELSE "Found playlist(s)"
    [] req.name = "getPlaylistTracks" ->
         IF found = 0 THEN "No tracks found in playlist" ELSE "Playlist tracks"
    [] req.name = "addToQueue" -> "Successfully added track to queue"

\* arguments the tools are called with
Texts ==
  {NoString} \cup
  {Passed(s) : s \in {<<>>, <<" ">>, <<" ", " ">>, <<"a">>, <<" ", "a", " ">>}}
Uris ==
  {NoString} \cup
  {Passed(s) : s \in {<<>>, TrackUriPrefix, TrackUriPrefix \o <<"x">>,
                      <<"spotify", ":", "track">>,
                      <<"spotify", ":", "album", ":", "x">>,
                      <<" ">> \o TrackUriPrefix \o <<"x">>}}
Limits ==
  {NoNumber} \cup
  {Passed(Num(n)) : n \in {0 - 1, 0, 1, 10, 50, 51, 100, 101}} \cup {Passed(NotANumber)}
Actions == {"play", "pause", "next", "previous", "", "stop", "PLAY"}
DeviceIds == {"", "device1"}

Request(name, text, limit, action, deviceId) ==
  [name |-> name, text |-> text, limit |-> limit, action |-> action,
   deviceId |-> deviceId]

ToolRequests ==
  {Request("searchTracks", q, l, "", "") : q \in Texts, l \in Limits}
  \cup {Request("playTrack", u, NoNumber, "", d) : u \in Uris, d \in DeviceIds}
  \cup {Request("playbackControl", NoString, NoNumber, a, d) :
          a \in Actions, d \in DeviceIds}
  \cup {Request("getUserPlaylists", NoString, l, "", "") : l \in Limits}
  \cup {Request("getPlaylistTracks", p, l, "", "") : p \in Texts, l \in Limits}
  \cup {Request("addToQueue", u, NoNumber, "", d) : u \in Uris, d \in DeviceIds}

\* no tool has been called
NoToolCall ==
  [pc |-> "idle", request |-> Request("", NoString, NoNumber, "", ""),
   error |-> null, calls |-> <<>>, response |-> ""]

\* no method of SpotifyAuth has been called from outside
NoAuthCall == [pc |-> "idle", method |-> "", error |-> null, response |-> null]

(***************************************************************************)
(* State                                                                   *)
(***************************************************************************)
VARIABLES
  authCall,      \* the call of a SpotifyAuth method made from outside the client
  tool,          \* the tool call in progress: its request, the calls it made on the client
  runs,          \* the executeWithRetry calls the callers make
  retryConfig,   \* SpotifyApiClient.retryConfig
  tokenMetadata, \* SpotifyAuth.tokenMetadata
  spotifyApi,    \* credentials held by the SpotifyWebApi instance
  now,           \* Date.now()
  pc,            \* where each executeWithRetry call is suspended
  attempt,       \* let attempt
  delay,         \* let delay
  lastError,     \* let lastError
  returned,      \* the value a call returned
  thrown,        \* the error a call threw
  opResult,      \* the value the last operation() of a call resolved with
  seen,          \* the status codes operation() failed with in a call
  ensureCalls,   \* calls of auth.ensureValidToken() by each call
  refreshCalls,  \* calls of auth.refreshAccessToken() by each call's 401 branch
  invocations,   \* calls of operation() by each call
  waits,         \* the sleep(waitTime) calls of each call, in order
  authError,     \* the error an auth call of each call rejected with
  ensureToken,   \* what ensureValidToken() resolved with in the last step
  tokenResponse  \* the const tokenResponse auth.ts built in the last step

\* ensureToken and tokenResponse are values the source drops as soon as the
\* step that produced them is over (the awaited token is not kept, tokenResponse
\* is a local): they are "" and null after every step that produced none.

authVars == <<tokenMetadata, spotifyApi>>

loopVars == <<attempt, delay, lastError>>

runVars ==
  <<pc, attempt, delay, lastError, returned, thrown, opResult, seen, ensureCalls,
    refreshCalls, invocations, waits, authError>>

vars ==
  <<authCall, tool, runs, retryConfig, tokenMetadata, spotifyApi, now, pc, attempt, delay,
    lastError, returned, thrown, opResult, seen, ensureCalls, refreshCalls,
    invocations, waits, ensureToken, authError, tokenResponse>>

\* the state after new SpotifyApiClient(config, retryConfig), before any call
Constructed ==
  /\ retryConfig \in RetryConfigs
  /\ \E rt \in ConfigRefreshTokens :
       /\ tokenMetadata = AuthConstructed(rt)
       /\ spotifyApi = [accessToken |-> "", refreshToken |-> rt]
  /\ now = 0
  /\ pc = [r \in AllRuns |-> "start"]
  /\ attempt = [r \in AllRuns |-> 0]
  /\ delay = [r \in AllRuns |-> 0]
  /\ lastError = [r \in AllRuns |-> null]
  /\ returned = [r \in AllRuns |-> ""]
  /\ thrown = [r \in AllRuns |-> null]
  /\ opResult = [r \in AllRuns |-> ""]
  /\ seen = [r \in AllRuns |-> {}]
  /\ ensureCalls = [r \in AllRuns |-> 0]
  /\ refreshCalls = [r \in AllRuns |-> 0]
  /\ invocations = [r \in AllRuns |-> 0]
  /\ waits = [r \in AllRuns |-> <<>>]
  /\ ensureToken = ""
  /\ authError = [r \in AllRuns |-> null]
  /\ tokenResponse = null
  /\ tool = NoToolCall
  /\ authCall = NoAuthCall

Init ==
  /\ runs = {1}
  /\ Constructed

(***************************************************************************)
(* Steps of executeWithRetry shared by its suspension points               *)
(***************************************************************************)
\* the call ends by throwing e
Throw(r, e) ==
  /\ pc' = [pc EXCEPT ![r] = "thrown"]
  /\ thrown' = [thrown EXCEPT ![r] = e]

\* the loop head at attempt index a: the condition is tested, then either
\* operation() is called or the loop is left and the last error is thrown
LoopHead(r, a, err) ==
  /\ attempt' = [attempt EXCEPT ![r] = a]
  /\ IF LoopCondition(a, retryConfig)
     THEN /\ pc' = [pc EXCEPT ![r] = "calling"]
          /\ invocations' = [invocations EXCEPT ![r] = @ + 1]
          /\ thrown' = thrown
     ELSE /\ Throw(r, handleError(err, OperationName))
          /\ invocations' = invocations

\* delay kept in a field of the client: a call starts from the delay another
\* call has reached
EnterLoop_SharedDelay(r) ==
  /\ lastError' = [lastError EXCEPT ![r] = null]
  /\ delay' = [delay EXCEPT ![r] =
       LET reached == {delay[q] : q \in AllRuns \ {r}} \ {0}
       IN  IF reached = {} THEN retryConfig.initialDelayMs
           ELSE CHOOSE d \in reached : TRUE]
  /\ LoopHead(r, 0, null)

\* after ensureValidToken() returned: let lastError = null; let delay = initialDelayMs;
\* for (let attempt = 0; ...)
EnterLoop(r) ==
  /\ lastError' = [lastError EXCEPT ![r] = null]
  /\ delay' = [delay EXCEPT ![r] = retryConfig.initialDelayMs]
  /\ LoopHead(r, 0, null)

\* the rejection of ensureValidToken() caught and ignored
EnsureFailed_Swallowed(r, e) == EnterLoop(r)

\* await this.auth.ensureValidToken() rejects: nothing catches it, the call ends
EnsureFailed(r, e) ==
  /\ Throw(r, e)
  /\ UNCHANGED <<loopVars, invocations>>

\* a missing `return`: the awaited value is dropped
ReturnValue_Dropped(v) == ""

\* return await operation()
ReturnValue(v) == v

\* the 429 and 503 branches up to their await: await this.sleep(waitTime)
HandleBackoff(r, error) ==
  /\ pc' = [pc EXCEPT ![r] = "sleeping"]
  /\ waits' = [waits EXCEPT ![r] =
       Append(@, [ms |-> WaitTime(error, StatusCodeOf(error), delay[r], retryConfig),
                  hinted |-> HonoursRetryAfter(error, StatusCodeOf(error))])]
  /\ UNCHANGED <<thrown, refreshCalls, authError>>

\* a 401 handled as a transient failure: wait instead of refreshing
HandleAuthExpired_Backoff(r, error) == HandleBackoff(r, error)

\* refreshAccessToken() rejects
AuthRejected(r, e) == authError' = [authError EXCEPT ![r] = e]

\* one refresh at a time: a 401 met while another call's refresh is in flight
\* sends no refresh of its own and ends the call
HandleAuthExpired_SingleFlight(r, error) ==
  IF \E q \in AllRuns \ {r} : pc[q] \in {"ensureRefresh", "refreshing"}
  THEN /\ Throw(r, handleError(error, OperationName))
       /\ UNCHANGED <<waits, refreshCalls, authError>>
  ELSE /\ refreshCalls' = [refreshCalls EXCEPT ![r] = @ + 1]
       /\ pc' = [pc EXCEPT ![r] = "refreshing"]
       /\ UNCHANGED <<thrown, authError, waits>>

\* the 401 branch guarded like the 429 and 503 branches: no refresh at the last
\* attempt index
HandleAuthExpired_Guarded(r, error) ==
  IF attempt[r] < retryConfig.maxRetries
  THEN /\ refreshCalls' = [refreshCalls EXCEPT ![r] = @ + 1]
       /\ IF HasRefreshToken(tokenMetadata)
          THEN /\ pc' = [pc EXCEPT ![r] = "refreshing"]
               /\ UNCHANGED <<thrown, authError>>
          ELSE /\ AuthRejected(r, NoRefreshTokenError)
               /\ Throw(r, NoRefreshTokenError)
       /\ waits' = waits
  ELSE /\ Throw(r, handleError(error, OperationName))
       /\ UNCHANGED <<waits, refreshCalls, authError>>

\* the 401 branch up to its await: await this.auth.refreshAccessToken()
HandleAuthExpired(r, error) ==
  /\ refreshCalls' = [refreshCalls EXCEPT ![r] = @ + 1]
  /\ IF HasRefreshToken(tokenMetadata)
     THEN /\ pc' = [pc EXCEPT ![r] = "refreshing"]
          /\ UNCHANGED <<thrown, authError>>
     ELSE /\ AuthRejected(r, NoRefreshTokenError)
          /\ Throw(r, NoRefreshTokenError)
  /\ waits' = waits

\* throw this.handleError(error, operationName)
HandleFatal(r, error) ==
  /\ Throw(r, handleError(error, OperationName))
  /\ UNCHANGED <<waits, refreshCalls, authError>>

\* a rejected refresh caught by the loop, which goes on to the next attempt
RefreshFailed_Retried(r, e) == LoopHead(r, NextAttempt(attempt[r]), lastError[r])

\* await this.auth.refreshAccessToken() rejects inside the catch block: nothing
\* catches it, the call ends
RefreshFailed(r, e) ==
  /\ Throw(r, e)
  /\ UNCHANGED <<attempt, invocations>>

\* ensureValidToken() resolving with the token held before its refresh
EnsureReturned_HeldBefore(r, meta) ==
  /\ ensureToken' = tokenMetadata.accessToken
  /\ authError' = authError
  /\ EnterLoop(r)

\* ensureValidToken(): return this.tokenMetadata.accessToken
EnsureReturned(r, meta) ==
  /\ ensureToken' = meta.accessToken
  /\ authError' = authError
  /\ EnterLoop(r)

(***************************************************************************)
(* Actions                                                                 *)
(* Each action is the code an executeWithRetry call runs between two       *)
(* suspensions: from the event that resumes it (the call itself, the       *)
(* answer to a refresh request, the settling of operation(), the timer of  *)
(* sleep) up to its next request, timer, return or throw.                  *)
(***************************************************************************)
\* executeWithRetry behind a lock: a call starts when no other call is in flight
Start_Serialized(r) ==
  /\ r \in runs
  /\ pc[r] = "start"
  /\ \A q \in AllRuns \ {r} : pc[q] \in {"start", "returned", "thrown"}
  /\ ensureCalls' = [ensureCalls EXCEPT ![r] = @ + 1]
  /\ IF isTokenExpired(tokenMetadata, now)
     THEN IF HasRefreshToken(tokenMetadata)
          THEN /\ pc' = [pc EXCEPT ![r] = "ensureRefresh"]
               /\ UNCHANGED <<thrown, loopVars, invocations, authError>>
               /\ ensureToken' = ""
          ELSE /\ AuthRejected(r, NoRefreshTokenError)
               /\ EnsureFailed(r, NoRefreshTokenError)
               /\ ensureToken' = ""
     ELSE IF HasAccessToken(tokenMetadata)
          THEN EnsureReturned(r, tokenMetadata)
          ELSE /\ AuthRejected(r, NoAccessTokenError)
               /\ EnsureFailed(r, NoAccessTokenError)
               /\ ensureToken' = ""
  /\ tokenResponse' = null
  /\ UNCHANGED <<authCall, tool, runs, retryConfig, authVars, now, returned, opResult, seen,
                 refreshCalls, waits>>

\* executeWithRetry is called: await this.auth.ensureValidToken()
Start(r) ==
  /\ r \in runs
  /\ pc[r] = "start"
  /\ ensureCalls' = [ensureCalls EXCEPT ![r] = @ + 1]
  /\ IF isTokenExpired(tokenMetadata, now)
     THEN IF HasRefreshToken(tokenMetadata)
          THEN /\ pc' = [pc EXCEPT ![r] = "ensureRefresh"]
               /\ UNCHANGED <<thrown, loopVars, invocations, authError>>
               /\ ensureToken' = ""
          ELSE /\ AuthRejected(r, NoRefreshTokenError)
               /\ EnsureFailed(r, NoRefreshTokenError)
               /\ ensureToken' = ""
     ELSE IF HasAccessToken(tokenMetadata)
          THEN EnsureReturned(r, tokenMetadata)
          ELSE /\ AuthRejected(r, NoAccessTokenError)
               /\ EnsureFailed(r, NoAccessTokenError)
               /\ ensureToken' = ""
  /\ tokenResponse' = null
  /\ UNCHANGED <<authCall, tool, runs, retryConfig, authVars, now, returned, opResult, seen,
                 refreshCalls, waits>>

\* the refresh request sent by ensureValidToken() is answered
EnsureRefreshed(r) ==
  /\ pc[r] = "ensureRefresh"
  /\ \/ \E body \in TokenBodies :
          /\ tokenResponse' = body
          /\ tokenMetadata' = RefreshedMetadata(body, tokenMetadata, now)
          /\ spotifyApi' = RefreshedApi(body, tokenMetadata, now, spotifyApi)
          /\ IF HasAccessToken(tokenMetadata')
             THEN EnsureReturned(r, tokenMetadata')
             ELSE /\ AuthRejected(r, NoAccessTokenError)
                  /\ EnsureFailed(r, NoAccessTokenError)
                  /\ ensureToken' = ""
     \/ \E msg \in RemoteAuthFailures :
          /\ AuthRejected(r, RefreshFailedError(msg))
          /\ EnsureFailed(r, RefreshFailedError(msg))
          /\ UNCHANGED authVars
          /\ tokenResponse' = null
          /\ ensureToken' = ""
  /\ UNCHANGED <<authCall, tool, runs, retryConfig, now, returned, opResult, seen, ensureCalls,
                 refreshCalls, waits>>

\* operation() resolves: return await operation()
OperationSucceeds(r) ==
  /\ pc[r] = "calling"
  /\ \E v \in OperationResults :
       /\ opResult' = [opResult EXCEPT ![r] = v]
       /\ returned' = [returned EXCEPT ![r] = ReturnValue(v)]
  /\ pc' = [pc EXCEPT ![r] = "returned"]
  /\ tokenResponse' = null
  /\ ensureToken' = ""
  /\ UNCHANGED <<authCall, tool, runs, retryConfig, authVars, now, loopVars, thrown, seen,
                 ensureCalls, refreshCalls, invocations, waits, authError>>

\* operation() rejects: the catch block
OperationFails(r) ==
  /\ pc[r] = "calling"
  /\ \E error \in OperationFailures :
       /\ lastError' = [lastError EXCEPT ![r] = error]
       /\ seen' = [seen EXCEPT ![r] = @ \cup {StatusCodeOf(error)}]
       /\ IF IsAuthExpired(StatusCodeOf(error))
          THEN HandleAuthExpired(r, error)
          ELSE IF ShouldBackoff(StatusCodeOf(error), attempt[r], retryConfig)
          THEN HandleBackoff(r, error)
          ELSE HandleFatal(r, error)
  /\ tokenResponse' = null
  /\ ensureToken' = ""
  /\ UNCHANGED <<authCall, tool, runs, retryConfig, authVars, now, attempt, delay, returned,
                 opResult, ensureCalls, invocations>>

\* the 401 path taking a step of backoff: delay multiplied as after a sleep
Refreshed_Backoff(r) ==
  /\ pc[r] = "refreshing"
  /\ \/ \E body \in TokenBodies :
          /\ tokenResponse' = body
          /\ tokenMetadata' = RefreshedMetadata(body, tokenMetadata, now)
          /\ spotifyApi' = RefreshedApi(body, tokenMetadata, now, spotifyApi)
          /\ LoopHead(r, NextAttempt(attempt[r]), lastError[r])
          /\ authError' = authError
     \/ \E msg \in RemoteAuthFailures :
          /\ AuthRejected(r, RefreshFailedError(msg))
          /\ RefreshFailed(r, RefreshFailedError(msg))
          /\ UNCHANGED authVars
          /\ tokenResponse' = null
  /\ delay' = [delay EXCEPT ![r] = NextDelay(@, retryConfig)]
  /\ ensureToken' = ""
  /\ UNCHANGED <<authCall, tool, runs, retryConfig, now, lastError, returned, opResult,
                 seen, ensureCalls, refreshCalls, waits>>

\* the 401 retry made at the current attempt index
Refreshed_SameAttempt(r) ==
  /\ pc[r] = "refreshing"
  /\ \/ \E body \in TokenBodies :
          /\ tokenResponse' = body
          /\ tokenMetadata' = RefreshedMetadata(body, tokenMetadata, now)
          /\ spotifyApi' = RefreshedApi(body, tokenMetadata, now, spotifyApi)
          /\ LoopHead(r, attempt[r], lastError[r])
          /\ authError' = authError
     \/ \E msg \in RemoteAuthFailures :
          /\ AuthRejected(r, RefreshFailedError(msg))
          /\ RefreshFailed(r, RefreshFailedError(msg))
          /\ UNCHANGED authVars
          /\ tokenResponse' = null
  /\ ensureToken' = ""
  /\ UNCHANGED <<authCall, tool, runs, retryConfig, now, delay, lastError, returned, opResult,
                 seen, ensureCalls, refreshCalls, waits>>

\* the refresh request sent by the 401 branch is answered: continue
Refreshed(r) ==
  /\ pc[r] = "refreshing"
  /\ \/ \E body \in TokenBodies :
          /\ tokenResponse' = body
          /\ tokenMetadata' = RefreshedMetadata(body, tokenMetadata, now)
          /\ spotifyApi' = RefreshedApi(body, tokenMetadata, now, spotifyApi)
          /\ LoopHead(r, NextAttempt(attempt[r]), lastError[r])
          /\ authError' = authError
     \/ \E msg \in RemoteAuthFailures :
          /\ AuthRejected(r, RefreshFailedError(msg))
          /\ RefreshFailed(r, RefreshFailedError(msg))
          /\ UNCHANGED authVars
          /\ tokenResponse' = null
  /\ ensureToken' = ""
  /\ UNCHANGED <<authCall, tool, runs, retryConfig, now, delay, lastError, returned, opResult,
                 seen, ensureCalls, refreshCalls, waits>>

\* a hinted wait that leaves the delay as it was
Slept_HintKeepsDelay(r) ==
  /\ pc[r] = "sleeping"
  /\ delay' = [delay EXCEPT ![r] =
       IF waits[r][Len(waits[r])].hinted THEN @ ELSE @ * retryConfig.backoffMultiplier]
  /\ LoopHead(r, attempt[r] + 1, lastError[r])
  /\ tokenResponse' = null
  /\ ensureToken' = ""
  /\ UNCHANGED <<authCall, tool, runs, retryConfig, authVars, now, lastError, returned, opResult,
                 seen, ensureCalls, refreshCalls, waits, authError>>

\* the timer of sleep(waitTime) fires: delay *= backoffMultiplier; continue
Slept(r) ==
  /\ pc[r] = "sleeping"
  /\ delay' = [delay EXCEPT ![r] = NextDelay(@, retryConfig)]
  /\ LoopHead(r, NextAttempt(attempt[r]), lastError[r])
  /\ tokenResponse' = null
  /\ ensureToken' = ""
  /\ UNCHANGED <<authCall, tool, runs, retryConfig, authVars, now, lastError, returned, opResult,
                 seen, ensureCalls, refreshCalls, waits, authError>>

\* exchangeCodeForToken(code), at the moment the remote answers
ExchangeCode ==
  /\ \/ \E body \in TokenBodies :
          /\ tokenResponse' = body
          /\ tokenMetadata' = ExchangedMetadata(body, now)
          /\ spotifyApi' = [accessToken |-> body.access_token,
                            refreshToken |-> body.refresh_token]
     \/ /\ UNCHANGED authVars
        /\ tokenResponse' = null
  /\ ensureToken' = ""
  /\ UNCHANGED <<authCall, tool, runs, retryConfig, now, runVars>>

\* the wall clock advances
Tick ==
  /\ now < MaxTicks * TickMs
  /\ now' = now + TickMs
  /\ tokenResponse' = null
  /\ ensureToken' = ""
  /\ UNCHANGED <<authCall, tool, runs, retryConfig, authVars, runVars>>

Next ==
  \/ \E r \in AllRuns : Start(r)
  \/ \E r \in AllRuns : EnsureRefreshed(r)
  \/ \E r \in AllRuns : OperationSucceeds(r)
  \/ \E r \in AllRuns : OperationFails(r)
  \/ \E r \in AllRuns : Refreshed(r)
  \/ \E r \in AllRuns : Slept(r)
  \/ ExchangeCode
  \/ Tick

Spec == Init /\ [][Next]_vars

\* every request a call awaits is answered and every timer fires: the operation
\* settles, the remote answers a refresh, setTimeout calls back
Completion ==
  \A r \in AllRuns :
    /\ WF_vars(EnsureRefreshed(r))
    /\ WF_vars(OperationSucceeds(r) \/ OperationFails(r))
    /\ WF_vars(Refreshed(r))
    /\ WF_vars(Slept(r))

\* one call from its start to its end, the clock and the credential left to it
NextRun ==
  \/ \E r \in AllRuns : Start(r)
  \/ \E r \in AllRuns : EnsureRefreshed(r)
  \/ \E r \in AllRuns : OperationSucceeds(r)
  \/ \E r \in AllRuns : OperationFails(r)
  \/ \E r \in AllRuns : Refreshed(r)
  \/ \E r \in AllRuns : Slept(r)

FairSpec == Init /\ [][NextRun]_vars /\ Completion

(***************************************************************************)
(* ensureValidToken() on its own: two callers, credentials held at every   *)
(* distance from their expiry                                              *)
(***************************************************************************)
\* Date.now() at the first call and the expiresAt of the credential held then
EnsureClocks == {0, 1, 60000}
EnsureExpiries == {0, 59999, 60000, 60001, 119999, 120000, 120001, 3600000}

\* credentials left by earlier exchanges and refreshes
HeldCredentials ==
  [accessToken : {"at1"}, refreshToken : {"", "rt1"}, expiresAt : EnsureExpiries]

InitEnsure ==
  /\ runs = AllRuns
  /\ retryConfig = DEFAULT_RETRY_CONFIG
  /\ tokenMetadata \in {null} \cup HeldCredentials
  /\ spotifyApi = IF tokenMetadata = null
                  THEN [accessToken |-> "", refreshToken |-> ""]
                  ELSE [accessToken |-> tokenMetadata.accessToken,
                        refreshToken |-> tokenMetadata.refreshToken]
  /\ now \in EnsureClocks
  /\ pc = [r \in AllRuns |-> "start"]
  /\ attempt = [r \in AllRuns |-> 0]
  /\ delay = [r \in AllRuns |-> 0]
  /\ lastError = [r \in AllRuns |-> null]
  /\ returned = [r \in AllRuns |-> ""]
  /\ thrown = [r \in AllRuns |-> null]
  /\ opResult = [r \in AllRuns |-> ""]
  /\ seen = [r \in AllRuns |-> {}]
  /\ ensureCalls = [r \in AllRuns |-> 0]
  /\ refreshCalls = [r \in AllRuns |-> 0]
  /\ invocations = [r \in AllRuns |-> 0]
  /\ waits = [r \in AllRuns |-> <<>>]
  /\ ensureToken = ""
  /\ authError = [r \in AllRuns |-> null]
  /\ tokenResponse = null
  /\ tool = NoToolCall
  /\ authCall = NoAuthCall

NextEnsure ==
  \/ \E r \in AllRuns : Start(r)
  \/ \E r \in AllRuns : EnsureRefreshed(r)
  \/ ExchangeCode
  \/ Tick

SpecEnsure == InitEnsure /\ [][NextEnsure]_vars

(***************************************************************************)
(* Two executeWithRetry calls in flight on one client, started with the    *)
(* refresh token of the configuration and one retry allowed                *)
(***************************************************************************)
\* no executeWithRetry call has been made
NoCallStarted ==
  /\ pc = [r \in AllRuns |-> "start"]
  /\ attempt = [r \in AllRuns |-> 0]
  /\ delay = [r \in AllRuns |-> 0]
  /\ lastError = [r \in AllRuns |-> null]
  /\ returned = [r \in AllRuns |-> ""]
  /\ thrown = [r \in AllRuns |-> null]
  /\ opResult = [r \in AllRuns |-> ""]
  /\ seen = [r \in AllRuns |-> {}]
  /\ ensureCalls = [r \in AllRuns |-> 0]
  /\ refreshCalls = [r \in AllRuns |-> 0]
  /\ invocations = [r \in AllRuns |-> 0]
  /\ waits = [r \in AllRuns |-> <<>>]
  /\ authError = [r \in AllRuns |-> null]
  /\ ensureToken = ""
  /\ tokenResponse = null
  /\ tool = NoToolCall
  /\ authCall = NoAuthCall

InitConcurrent ==
  /\ runs = AllRuns
  /\ retryConfig = [DEFAULT_RETRY_CONFIG EXCEPT !.maxRetries = 1]
  /\ tokenMetadata = AuthConstructed("rt1")
  /\ spotifyApi = [accessToken |-> "", refreshToken |-> "rt1"]
  /\ now = 0
  /\ NoCallStarted

NextConcurrent ==
  \/ \E r \in AllRuns : Start(r)
  \/ \E r \in AllRuns : EnsureRefreshed(r)
  \/ \E r \in AllRuns : OperationSucceeds(r)
  \/ \E r \in AllRuns : OperationFails(r)
  \/ \E r \in AllRuns : Refreshed(r)
  \/ \E r \in AllRuns : Slept(r)

SpecConcurrent == InitConcurrent /\ [][NextConcurrent]_vars

(***************************************************************************)
(* SpotifyAuth called on its own, as the authorization script and the      *)
(* tests call it: exchangeCodeForToken(code) and refreshAccessToken()      *)
(***************************************************************************)
\* the catch block of an auth method rethrowing, the credential cleared on the way
AuthMethodFailed_Cleared(method, e) ==
  /\ authCall' = [pc |-> "thrown", method |-> method, error |-> e, response |-> null]
  /\ tokenMetadata' = null
  /\ spotifyApi' = spotifyApi

\* an auth method throws: the guard of refreshAccessToken(), or the catch block
\* of either method around the rejected request
AuthMethodFailed(method, e) ==
  /\ authCall' = [pc |-> "thrown", method |-> method, error |-> e, response |-> null]
  /\ UNCHANGED authVars

\* exchangeCodeForToken(code) up to await this.spotifyApi.authorizationCodeGrant(code)
ExchangeCalled ==
  /\ authCall.pc \in {"idle", "returned", "thrown"}
  /\ authCall' = [pc |-> "exchanging", method |-> "exchangeCodeForToken",
                  error |-> null, response |-> null]
  /\ UNCHANGED <<tool, runs, retryConfig, authVars, now, runVars, ensureToken,
                 tokenResponse>>

\* the grant request is answered
ExchangeAnswered ==
  /\ authCall.pc = "exchanging"
  /\ \/ \E body \in TokenBodies :
          /\ tokenResponse' = body
          /\ tokenMetadata' = ExchangedMetadata(body, now)
          /\ spotifyApi' = [accessToken |-> body.access_token,
                            refreshToken |-> body.refresh_token]
          /\ authCall' = [authCall EXCEPT !.pc = "returned", !.response = body]
     \/ \E msg \in RemoteAuthFailures :
          /\ AuthMethodFailed("exchangeCodeForToken", ExchangeFailedError(msg))
          /\ tokenResponse' = null
  /\ UNCHANGED <<tool, runs, retryConfig, now, runVars, ensureToken>>

\* refreshAccessToken() up to await this.spotifyApi.refreshAccessToken()
RefreshCalled ==
  /\ authCall.pc \in {"idle", "returned", "thrown"}
  /\ IF HasRefreshToken(tokenMetadata)
     THEN /\ authCall' = [pc |-> "refreshing", method |-> "refreshAccessToken",
                          error |-> null, response |-> null]
          /\ UNCHANGED authVars
     ELSE AuthMethodFailed("refreshAccessToken", NoRefreshTokenError)
  /\ UNCHANGED <<tool, runs, retryConfig, now, runVars, ensureToken, tokenResponse>>

\* the refresh request is answered
RefreshAnswered ==
  /\ authCall.pc = "refreshing"
  /\ \/ \E body \in TokenBodies :
          /\ tokenResponse' = body
          /\ tokenMetadata' = RefreshedMetadata(body, tokenMetadata, now)
          /\ spotifyApi' = RefreshedApi(body, tokenMetadata, now, spotifyApi)
          /\ authCall' =
               [authCall EXCEPT !.pc = "returned",
                  !.response = [body EXCEPT !.refresh_token =
                                  RefreshedRefreshToken(body, tokenMetadata)]]
     \/ \E msg \in RemoteAuthFailures :
          /\ AuthMethodFailed("refreshAccessToken", RefreshFailedError(msg))
          /\ tokenResponse' = null
  /\ UNCHANGED <<tool, runs, retryConfig, now, runVars, ensureToken>>

InitAuth ==
  /\ runs = {}
  /\ retryConfig = DEFAULT_RETRY_CONFIG
  /\ tokenMetadata \in {null, AuthConstructed("rt1")} \cup HeldCredentials
  /\ spotifyApi = IF tokenMetadata = null
                  THEN [accessToken |-> "", refreshToken |-> ""]
                  ELSE [accessToken |-> tokenMetadata.accessToken,
                        refreshToken |-> tokenMetadata.refreshToken]
  /\ now \in EnsureClocks
  /\ NoCallStarted

NextAuth ==
  \/ ExchangeCalled
  \/ ExchangeAnswered
  \/ RefreshCalled
  \/ RefreshAnswered

SpecAuth == InitAuth /\ [][NextAuth]_vars

(***************************************************************************)
(* One call of a tool handler on a client no call has been made on         *)
(***************************************************************************)
\* a handler is called: it runs up to its throw or to its await of the client
ToolCalled ==
  /\ tool.pc = "idle"
  /\ \E req \in ToolRequests :
       LET out == Handler(req)
       IN  tool' = [pc |-> IF out.error # null THEN "thrown" ELSE "awaiting",
                    request |-> req, error |-> out.error, calls |-> out.calls,
                    response |-> ""]
  /\ UNCHANGED <<authCall, runs, retryConfig, authVars, now, runVars, ensureToken,
                 tokenResponse>>

\* the method of the client resolves: the handler formats and returns
ClientResolved ==
  /\ tool.pc = "awaiting"
  /\ \E found \in {0, 2} :
       tool' = [tool EXCEPT !.pc = "returned",
                            !.response = Response(tool.request, found)]
  /\ UNCHANGED <<authCall, runs, retryConfig, authVars, now, runVars, ensureToken,
                 tokenResponse>>

\* the method of the client rejects: nothing catches it, the handler rejects
ClientRejected ==
  /\ tool.pc = "awaiting"
  /\ \E e \in OperationFailures :
       tool' = [tool EXCEPT !.pc = "thrown",
                            !.error = [name |-> "SpotifyApiError",
                                       message |-> FriendlyMessage(e, OperationName)]]
  /\ UNCHANGED <<authCall, runs, retryConfig, authVars, now, runVars, ensureToken,
                 tokenResponse>>

NextTools ==
  \/ ToolCalled
  \/ ClientResolved
  \/ ClientRejected

SpecTools == Init /\ [][NextTools]_vars

(***************************************************************************)
(* Properties of executeWithRetry                                          *)
(***************************************************************************)
\* the call ended with the classified error of handleError
Classified(r) == pc[r] = "thrown" /\ thrown[r].name = "SpotifyApiError"

RateLimitMessage == "Rate limit exceeded. Please try again later."

\* C1: in one call whose operation failures are all 429 or 503, the operation
\* is invoked at most maxRetries + 1 times, for every maxRetries >= 0.
C1_AttemptsBounded ==
  \A r \in AllRuns :
    seen[r] \subseteq {429, 503} => invocations[r] <= retryConfig.maxRetries + 1

\* a call that used all maxRetries + 1 invocations on 429 and 503 failures
C1_Witness ==
  \E r \in AllRuns :
    /\ retryConfig.maxRetries = 3
    /\ seen[r] = {429, 503}
    /\ invocations[r] = 4
    /\ Classified(r)

\* C2: when every invocation fails with 429, the call invokes the operation
\* exactly maxRetries + 1 times (4 for the default configuration) and then throws
\* a SpotifyApiError with status code 429 and the rate-limit message.
C2_RateLimitExhaustion ==
  \A r \in AllRuns :
    (pc[r] = "thrown" /\ seen[r] = {429}) =>
      /\ invocations[r] = retryConfig.maxRetries + 1
      /\ (retryConfig.maxRetries = DEFAULT_RETRY_CONFIG.maxRetries => invocations[r] = 4)
      /\ thrown[r].name = "SpotifyApiError"
      /\ thrown[r].statusCode = 429
      /\ thrown[r].message = RateLimitMessage

\* the default configuration giving up after four 429 failures
C2_Witness ==
  \E r \in AllRuns :
    /\ retryConfig = DEFAULT_RETRY_CONFIG
    /\ pc[r] = "thrown"
    /\ seen[r] = {429}
    /\ invocations[r] = 4
    /\ Len(waits[r]) = 3

\* C3: when the operation fails once with 401 and succeeds on its second
\* invocation, the call has called refreshAccessToken() from its 401 branch
\* exactly once, has invoked the operation exactly twice, has taken no backoff
\* wait and returns the value of the second invocation.
C3_RefreshOnceThenSucceed ==
  \A r \in AllRuns :
    (pc[r] = "returned" /\ seen[r] = {401} /\ attempt[r] = 1) =>
      /\ refreshCalls[r] = 1
      /\ invocations[r] = 2
      /\ waits[r] = <<>>
      /\ returned[r] = opResult[r]
      /\ returned[r] \in OperationResults

\* a call that returned after one 401 failure and one refresh
C3_Witness ==
  \E r \in AllRuns :
    /\ pc[r] = "returned"
    /\ seen[r] = {401}
    /\ attempt[r] = 1
    /\ refreshCalls[r] = 1
    /\ returned[r] = "result2"

\* C4 as claimed: a 401 retry is made at the current attempt index, so the
\* attempt index counts the backoff retries alone and a call gives up on a 429
\* or 503 only after maxRetries backoff waits.
C4_RefreshKeepsAttemptIndex ==
  \A r \in AllRuns :
    /\ pc[r] = "calling" => attempt[r] = Len(waits[r])
    /\ (Classified(r) /\ thrown[r].statusCode \in {429, 503}) =>
         Len(waits[r]) = retryConfig.maxRetries

\* C4 as amended: a 401 handled by a successful refresh advances the attempt
\* index like a backoff retry. While the operation is in flight the attempt index
\* is the number of 401 refreshes plus the number of backoff waits of the call,
\* the operation is invoked at most maxRetries + 1 times whatever the failures,
\* and a call gives up on a 429 or 503 when its refreshes and waits together
\* number maxRetries.
C4_RefreshConsumesAttempt ==
  \A r \in AllRuns :
    /\ pc[r] = "calling" =>
         /\ attempt[r] = refreshCalls[r] + Len(waits[r])
         /\ invocations[r] = attempt[r] + 1
    /\ invocations[r] <= retryConfig.maxRetries + 1
    /\ (Classified(r) /\ thrown[r].statusCode \in {429, 503}) =>
         refreshCalls[r] + Len(waits[r]) = retryConfig.maxRetries

\* 401, 429, 429, 429 under maxRetries = 3: the rate-limit error after 4 invocations
C4_Witness ==
  \E r \in AllRuns :
    /\ retryConfig.maxRetries = 3
    /\ Classified(r)
    /\ thrown[r].statusCode = 429
    /\ seen[r] = {401, 429}
    /\ refreshCalls[r] = 1
    /\ Len(waits[r]) = 2
    /\ invocations[r] = 4

\* C5: every refresh that succeeds in the 401 branch is followed by another
\* invocation of the operation: a call that leaves its refresh by throwing
\* throws the refresh's own failure, never the classified error.
C5_RefreshReturnsToAttempting ==
  [][\A r \in AllRuns :
       (pc[r] = "refreshing" /\ pc'[r] # "refreshing") =>
         \/ pc'[r] = "calling" /\ invocations'[r] = invocations[r] + 1
         \/ pc'[r] = "thrown" /\ thrown'[r].name = "Error"]_vars

\* C6: every backoff wait started after a 429 or 503 failure is followed by
\* another invocation of the operation, never by the end of the call.
C6_BackoffReturnsToAttempting ==
  [][\A r \in AllRuns :
       (pc[r] = "sleeping" /\ pc'[r] # "sleeping") =>
         /\ pc'[r] = "calling"
         /\ invocations'[r] = invocations[r] + 1
         /\ attempt'[r] <= retryConfig.maxRetries]_vars

\* the last attempt a configuration allows, reached through backoff waits alone
C6_Witness ==
  \E r \in AllRuns :
    /\ pc[r] = "calling"
    /\ retryConfig.maxRetries >= 2
    /\ attempt[r] = retryConfig.maxRetries
    /\ Len(waits[r]) = retryConfig.maxRetries

\* C7: a call calls ensureValidToken() exactly once, before its first invocation
\* of the operation; the operation is invoked only with an access token held;
\* when ensureValidToken() fails the operation is never invoked, no wait and no
\* refresh of the 401 branch happens, and the call throws that failure as it is.
C7_EnsureOnceBeforeFirstAttempt ==
  \A r \in AllRuns :
    /\ ensureCalls[r] = IF pc[r] = "start" THEN 0 ELSE 1
    /\ invocations[r] > 0 => ensureCalls[r] = 1 /\ HasAccessToken(tokenMetadata)
    /\ pc[r] = "ensureRefresh" => invocations[r] = 0
    /\ (pc[r] = "thrown" /\ invocations[r] = 0) =>
         /\ thrown[r] \in {NoRefreshTokenError, NoAccessTokenError} \cup
                          {RefreshFailedError(m) : m \in RemoteAuthFailures}
         /\ waits[r] = <<>>
         /\ refreshCalls[r] = 0
         /\ lastError[r] = null

\* a call ended by the failure of the refresh ensureValidToken() asked for
C7_Witness ==
  \E r \in AllRuns :
    /\ pc[r] = "thrown"
    /\ thrown[r] = RefreshFailedError("invalid_grant")
    /\ ensureCalls[r] = 1
    /\ invocations[r] = 0

\* C8: when an invocation of the operation succeeds the call returns the value
\* it resolved with, and that step changes neither the held credential nor the
\* call's counts of invocations, refreshes and waits; a call that has returned
\* invokes, refreshes and waits no more.
C8_SuccessReturnsImmediately ==
  [][\A r \in AllRuns :
       /\ (pc[r] = "calling" /\ pc'[r] = "returned") =>
            /\ returned'[r] = opResult'[r]
            /\ opResult'[r] \in OperationResults
            /\ UNCHANGED <<tokenMetadata, spotifyApi>>
       /\ pc'[r] = "returned" =>
            /\ pc[r] \in {"calling", "returned"}
            /\ invocations'[r] = invocations[r]
            /\ refreshCalls'[r] = refreshCalls[r]
            /\ ensureCalls'[r] = ensureCalls[r]
            /\ waits'[r] = waits[r]
       /\ pc[r] = "returned" =>
            /\ pc'[r] = "returned"
            /\ returned'[r] = returned[r]]_vars

\* a call that returned the value of its third invocation
C8_Witness ==
  \E r \in AllRuns :
    /\ pc[r] = "returned"
    /\ attempt[r] = 2
    /\ invocations[r] = 3
    /\ returned[r] = "result1"

\* the status codes the loop retries on
RetriedStatusCodes == {401, 429, 503}

\* C9: a failure whose status code is none of 401, 429 and 503, or that has no
\* status code, ends the call at once with the classified error of that failure:
\* the counts of the call are those of the failing attempt, so no invocation, no
\* wait and no refresh followed it, at every attempt index.
C9_FatalRaisesImmediately ==
  \A r \in AllRuns :
    (lastError[r] # null /\ StatusCodeOf(lastError[r]) \notin RetriedStatusCodes) =>
      /\ pc[r] = "thrown"
      /\ thrown[r] = handleError(lastError[r], OperationName)
      /\ invocations[r] = attempt[r] + 1
      /\ refreshCalls[r] + Len(waits[r]) = attempt[r]

\* a failure without status code ending a call that had retries left
C9_Witness ==
  \E r \in AllRuns :
    /\ pc[r] = "thrown"
    /\ lastError[r] # null
    /\ StatusCodeOf(lastError[r]) = 0
    /\ attempt[r] = 1
    /\ retryConfig.maxRetries = 3

RECURSIVE Power(_, _)
Power(b, n) == IF n = 0 THEN 1 ELSE b * Power(b, n - 1)

\* min(initialDelay * backoffMultiplier^(k-1), maxDelay)
ExpectedWait(k, cfg) ==
  Min(cfg.initialDelayMs * Power(cfg.backoffMultiplier, k - 1), cfg.maxDelayMs)

DefaultWaits == <<1000, 2000, 4000>>

\* C10: while no wait of a call has honoured a retry-after hint, its k-th wait,
\* 429 and 503 waits counted together, is
\* min(initialDelay * backoffMultiplier^(k-1), maxDelay); under the default
\* delays the first three are 1000, 2000 and 4000 and none exceeds 10000.
C10_BackoffGrowth ==
  \A r \in AllRuns :
    \A k \in 1..Len(waits[r]) :
      (\A j \in 1..k : ~waits[r][j].hinted) =>
        /\ waits[r][k].ms = ExpectedWait(k, retryConfig)
        /\ waits[r][k].ms <= retryConfig.maxDelayMs
        /\ ( /\ retryConfig.initialDelayMs = DEFAULT_RETRY_CONFIG.initialDelayMs
             /\ retryConfig.backoffMultiplier = DEFAULT_RETRY_CONFIG.backoffMultiplier
             /\ retryConfig.maxDelayMs = DEFAULT_RETRY_CONFIG.maxDelayMs ) =>
             /\ k <= 3 => waits[r][k].ms = DefaultWaits[k]
             /\ waits[r][k].ms <= 10000

\* the default configuration waiting 1000, 2000, 4000 on mixed 429 and 503 failures
C10_Witness ==
  \E r \in AllRuns :
    /\ retryConfig = DEFAULT_RETRY_CONFIG
    /\ seen[r] = {429, 503}
    /\ Len(waits[r]) = 3
    /\ \A k \in 1..3 : waits[r][k] = [ms |-> DefaultWaits[k], hinted |-> FALSE]

\* the seconds a retry-after header of the remote asks for
HintSeconds(h) == CASE h = <<"2">> -> 2

\* C11: a call waiting after a 429 failure that carried a retry-after hint of h
\* seconds waits exactly h * 1000 milliseconds, whatever the delay computed so
\* far and whatever maxDelayMs: the hint is not capped.
C11_HintedWaitExact ==
  \A r \in AllRuns :
    ( /\ pc[r] = "sleeping"
      /\ StatusCodeOf(lastError[r]) = 429
      /\ lastError[r].retryAfter # <<>> ) =>
        waits[r][Len(waits[r])] =
          [ms |-> HintSeconds(lastError[r].retryAfter) * 1000, hinted |-> TRUE]

\* a hinted wait of 2000 under maxDelayMs = 1500, taken as the second wait
C11_Witness ==
  \E r \in AllRuns :
    /\ pc[r] = "sleeping"
    /\ StatusCodeOf(lastError[r]) = 429
    /\ lastError[r].retryAfter = <<"2">>
    /\ retryConfig.maxDelayMs = 1500
    /\ Len(waits[r]) = 2
    /\ waits[r][2].ms = 2000

\* C12: a wait that honoured a retry-after hint still multiplies the delay: a
\* later wait without hint, the k-th of the call, is
\* min(initialDelay * backoffMultiplier^(k-1), maxDelay), the k - 1 earlier waits
\* counted whether hinted or not.
C12_HintedWaitStillMultiplies ==
  \A r \in AllRuns :
    \A k \in 1..Len(waits[r]) :
      (~waits[r][k].hinted /\ \E j \in 1..(k - 1) : waits[r][j].hinted) =>
        waits[r][k].ms = ExpectedWait(k, retryConfig)

\* default delays: a hinted first wait, then another, then a computed
\* third wait of 4000
C12_Witness ==
  \E r \in AllRuns :
    /\ retryConfig.initialDelayMs = 1000
    /\ retryConfig.maxDelayMs = 10000
    /\ Len(waits[r]) = 3
    /\ waits[r][1].hinted
    /\ waits[r][2].hinted
    /\ waits[r][3] = [ms |-> 4000, hinted |-> FALSE]

\* C13: a call waiting after a 503 failure waits min(current delay, maxDelay)
\* even when the failure carries a retry-after header: the header is not read.
C13_ServiceUnavailableIgnoresHint ==
  \A r \in AllRuns :
    ( /\ pc[r] = "sleeping"
      /\ StatusCodeOf(lastError[r]) = 503
      /\ lastError[r].retryAfter # <<>> ) =>
        /\ waits[r][Len(waits[r])].ms = Min(delay[r], retryConfig.maxDelayMs)
        /\ ~waits[r][Len(waits[r])].hinted
        /\ (\A j \in 1..Len(waits[r]) : ~waits[r][j].hinted) =>
             waits[r][Len(waits[r])].ms = ExpectedWait(Len(waits[r]), retryConfig)

\* a first wait of 1000 after a 503 failure whose header asked for 2 seconds
C13_Witness ==
  \E r \in AllRuns :
    /\ pc[r] = "sleeping"
    /\ StatusCodeOf(lastError[r]) = 503
    /\ lastError[r].retryAfter = <<"2">>
    /\ waits[r] = <<[ms |-> 1000, hinted |-> FALSE]>>

\* C14: when refreshAccessToken() fails in the 401 branch the call ends at once
\* with that failure, not the classified error: the counts of the call are those
\* of the failing attempt, so no invocation, no wait and no refresh followed it.
C14_RefreshFailureEndsCall ==
  \A r \in AllRuns :
    (authError[r] # null /\ invocations[r] > 0) =>
      /\ pc[r] = "thrown"
      /\ thrown[r] = authError[r]
      /\ thrown[r] \in {NoRefreshTokenError} \cup
                       {RefreshFailedError(m) : m \in RemoteAuthFailures}
      /\ StatusCodeOf(lastError[r]) = 401
      /\ invocations[r] = attempt[r] + 1
      /\ refreshCalls[r] + Len(waits[r]) = attempt[r] + 1
      /\ returned[r] = ""

\* a rejected refresh ending a call at its second attempt with retries left
C14_Witness ==
  \E r \in AllRuns :
    /\ pc[r] = "thrown"
    /\ thrown[r] = RefreshFailedError("invalid_grant")
    /\ authError[r] = thrown[r]
    /\ retryConfig.maxRetries = 3
    /\ attempt[r] = 1
    /\ invocations[r] = 2
    /\ refreshCalls[r] = 1
    /\ Len(waits[r]) = 1

\* C15: a call whose operation failed with 503 or 429 on its first k invocations,
\* k <= maxRetries, and succeeded on the next one returns after exactly k + 1
\* invocations and k waits, and its waits without hint never decrease.
C15_TransientThenSuccess ==
  \A r \in AllRuns :
    (pc[r] = "returned" /\ seen[r] \subseteq {429, 503}) =>
      /\ invocations[r] = attempt[r] + 1
      /\ Len(waits[r]) = attempt[r]
      /\ attempt[r] <= retryConfig.maxRetries
      /\ refreshCalls[r] = 0
      /\ returned[r] = opResult[r]
      /\ \A i, j \in 1..Len(waits[r]) :
           (i < j /\ ~waits[r][i].hinted /\ ~waits[r][j].hinted) =>
             waits[r][i].ms <= waits[r][j].ms

\* three 503 failures, waits of 1000, 1500 and 1500, success on the fourth invocation
C15_Witness ==
  \E r \in AllRuns :
    /\ pc[r] = "returned"
    /\ seen[r] = {503}
    /\ retryConfig.maxRetries = 3
    /\ invocations[r] = 4
    /\ Len(waits[r]) = 3
    /\ waits[r][1].ms = 1000
    /\ waits[r][2].ms = 1500
    /\ waits[r][3].ms = 1500

(***************************************************************************)
(* Properties of SpotifyAuth                                               *)
(***************************************************************************)
\* no credential is held, or the one held expires within 60 seconds
WithinBuffer(meta, clock) ==
  \/ meta = null
  \/ meta.expiresAt - clock <= 60 * 1000

\* C16: isTokenExpired() is true when no credential is held or when expiresAt
\* minus the current time is at most 60 seconds, the exact boundary and every
\* expiresAt in the past included, and false when more than 60 seconds remain.
C16_ExpiredWithinBuffer ==
  /\ isTokenExpired(tokenMetadata, now) <=> WithinBuffer(tokenMetadata, now)
  /\ \A meta \in HeldCredentials, clock \in EnsureClocks :
       isTokenExpired(meta, clock) <=> meta.expiresAt - clock <= 60000
  /\ isTokenExpired(null, now)

\* a refresh asked for by ensureValidToken() with exactly 60 seconds remaining
C16_Witness ==
  \E r \in AllRuns :
    /\ pc[r] = "ensureRefresh"
    /\ tokenMetadata # null
    /\ tokenMetadata.expiresAt - now = 60 * 1000
    /\ isTokenExpired(tokenMetadata, now)

\* C17: when a refresh succeeds on a response without refresh token the held
\* refreshToken is left as it was while accessToken and expiresAt are replaced
\* by those of the response; when the response carries a refresh token the held
\* refreshToken becomes that one.
C17_RefreshKeepsOrReplacesToken ==
  [][\A r \in AllRuns :
       ( /\ pc[r] \in {"ensureRefresh", "refreshing"}
         /\ pc'[r] # pc[r]
         /\ tokenResponse' # null ) =>
           /\ tokenMetadata'.accessToken = tokenResponse'.access_token
           /\ tokenMetadata'.expiresAt = now + tokenResponse'.expires_in * 1000
           /\ tokenResponse'.refresh_token = "" =>
                tokenMetadata'.refreshToken = tokenMetadata.refreshToken
           /\ tokenResponse'.refresh_token # "" =>
                tokenMetadata'.refreshToken = tokenResponse'.refresh_token]_vars

\* the refresh of a 401 branch answered without refresh token: "rt1" is kept and
\* the access token is the response's
C17_Witness ==
  \E r \in AllRuns :
    /\ pc[r] = "calling"
    /\ refreshCalls[r] = 1
    /\ tokenResponse # null
    /\ tokenResponse.refresh_token = ""
    /\ tokenMetadata.refreshToken = "rt1"
    /\ tokenMetadata.accessToken = tokenResponse.access_token
    /\ tokenMetadata.accessToken = "at2"

\* C18: right after every successful exchange or refresh the held refreshToken
\* is present, also when the response omitted refresh_token.
C18_RefreshTokenPresent ==
  tokenResponse # null => (tokenMetadata # null /\ tokenMetadata.refreshToken # "")

\* C19: with no refresh token given at construction and no exchange succeeded,
\* ensureValidToken() and its refreshAccessToken() fail with the no-refresh-token
\* error, no request is sent and the credential stays empty.
C19_NoRefreshTokenNoRequest ==
  /\ [](tokenMetadata = null =>
          /\ spotifyApi = [accessToken |-> "", refreshToken |-> ""]
          /\ \A r \in AllRuns :
               /\ pc[r] \in {"start", "thrown"}
               /\ pc[r] = "thrown" =>
                    /\ thrown[r] = NoRefreshTokenError
                    /\ authError[r] = NoRefreshTokenError
                    /\ invocations[r] = 0)
  /\ [][\A r \in AllRuns :
          (tokenMetadata = null /\ pc[r] = "start" /\ pc'[r] # "start") =>
            /\ pc'[r] = "thrown"
            /\ thrown'[r].message =
                 "No refresh token available. Please authorize the application first."
            /\ tokenMetadata' = null
            /\ spotifyApi' = spotifyApi
            /\ tokenResponse' = null]_vars

\* both callers failed with the no-refresh-token error, nothing is held
C19_Witness ==
  /\ tokenMetadata = null
  /\ \A r \in AllRuns :
       /\ pc[r] = "thrown"
       /\ thrown[r] = NoRefreshTokenError
       /\ ensureCalls[r] = 1

\* C20 as claimed: ensureValidToken() sends a refresh request if and only if
\* isTokenExpired() is true at the call; a fresh credential is returned as held
\* with nothing sent, an expired one is refreshed exactly once and the access
\* token of the refresh response is returned.
C20_RefreshIffExpired ==
  [][\A r \in AllRuns :
       /\ (pc[r] = "start" /\ pc'[r] # "start") =>
            /\ pc'[r] = "ensureRefresh" <=> WithinBuffer(tokenMetadata, now)
            /\ ~WithinBuffer(tokenMetadata, now) =>
                 /\ pc'[r] = "calling"
                 /\ ensureToken' = tokenMetadata.accessToken
                 /\ UNCHANGED <<tokenMetadata, spotifyApi>>
       /\ (pc[r] = "ensureRefresh" /\ pc'[r] = "calling") =>
            /\ tokenResponse' # null
            /\ ensureToken' = tokenResponse'.access_token
       /\ pc'[r] = "ensureRefresh" => pc[r] \in {"start", "ensureRefresh"}]_vars

\* a refresh token is held
Refreshable(meta) == meta # null /\ meta.refreshToken # ""

\* C20 as amended: ensureValidToken() sends a refresh request if and only if
\* isTokenExpired() is true at the call and a refresh token is held; expired
\* without refresh token it sends nothing and fails with the no-refresh-token
\* error. A fresh credential is returned as held with nothing sent; an expired
\* one is refreshed exactly once and the access token of the refresh response
\* is returned, or the failure of that refresh is thrown.
C20_RefreshIffExpiredAndRefreshable ==
  [][\A r \in AllRuns :
       /\ (pc[r] = "start" /\ pc'[r] # "start") =>
            /\ pc'[r] = "ensureRefresh" <=>
                 (WithinBuffer(tokenMetadata, now) /\ Refreshable(tokenMetadata))
            /\ tokenResponse' = null
            /\ UNCHANGED <<tokenMetadata, spotifyApi>>
            /\ ~WithinBuffer(tokenMetadata, now) =>
                 /\ pc'[r] = "calling"
                 /\ ensureToken' = tokenMetadata.accessToken
            /\ (WithinBuffer(tokenMetadata, now) /\ ~Refreshable(tokenMetadata)) =>
                 /\ pc'[r] = "thrown"
                 /\ thrown'[r] = NoRefreshTokenError
       /\ (pc[r] = "ensureRefresh" /\ pc'[r] # "ensureRefresh") =>
            \/ /\ pc'[r] = "calling"
               /\ tokenResponse' # null
               /\ ensureToken' = tokenResponse'.access_token
               /\ tokenMetadata'.accessToken = tokenResponse'.access_token
            \/ /\ pc'[r] = "thrown"
               /\ tokenResponse' = null
               /\ thrown'[r] \in {RefreshFailedError(m) : m \in RemoteAuthFailures}
               /\ UNCHANGED <<tokenMetadata, spotifyApi>>
       /\ pc'[r] = "ensureRefresh" => pc[r] \in {"start", "ensureRefresh"}]_vars

\* an expired "at1" refreshed by ensureValidToken(), which resolved with the
\* "at2" of the response
C20_Witness ==
  \E r \in AllRuns :
    /\ pc[r] = "calling"
    /\ ensureCalls[r] = 1
    /\ tokenResponse # null
    /\ tokenResponse.access_token = "at2"
    /\ ensureToken = "at2"
    /\ tokenMetadata.accessToken = "at2"

\* C21: a successful exchangeCodeForToken() replaces the held credential
\* entirely: accessToken and refreshToken are those of the response, expiresAt is
\* the time of completion plus expires_in seconds, and nothing of the credential
\* held before is kept.
C21_ExchangeReplacesCredential ==
  [][(tokenResponse' # null /\ pc' = pc) =>
       /\ tokenMetadata' = [accessToken |-> tokenResponse'.access_token,
                            refreshToken |-> tokenResponse'.refresh_token,
                            expiresAt |-> now + tokenResponse'.expires_in * 1000]
       /\ spotifyApi'.accessToken = tokenResponse'.access_token
       /\ spotifyApi'.refreshToken = tokenResponse'.refresh_token]_vars

\* before any call: "at2" and "rt2" of an exchange response held, expiring 90
\* seconds after a completion at 60000
C21_Witness ==
  /\ \A r \in AllRuns : pc[r] = "start"
  /\ tokenResponse # null
  /\ tokenResponse.expires_in = 90
  /\ now = 60000
  /\ tokenMetadata = [accessToken |-> "at2", refreshToken |-> "rt2", expiresAt |-> 150000]

(***************************************************************************)
(* Properties of handleError                                               *)
(***************************************************************************)
PermissionMessage == "Access forbidden. You may not have the required permissions."
NotFoundMessage == "Resource not found. Please check the provided ID or URI."
UnavailableMessage == "Spotify service is temporarily unavailable. Please try again later."
AuthenticationMessage == "Authentication failed. Please re-authorize the application."

\* "Failed to {label}: {remoteMessage}" for the failure a call ended on
FailedToMessage(error) ==
  "Failed to search tracks: " \o
    (IF error.bodyMessage # "" THEN error.bodyMessage
     ELSE IF error.message # "" THEN error.message ELSE "Unknown error")

\* C22 as claimed: a classified error carries the status code of the failure and
\* a message given by that code: 403 permission, 404 not found, 429 rate limit,
\* every 5xx temporary unavailability, any other or no code "Failed to ...".
C22_MessageByStatusEvery5xx ==
  \A r \in AllRuns :
    Classified(r) =>
      /\ thrown[r].originalError = lastError[r]
      /\ thrown[r].statusCode = StatusCodeOf(lastError[r])
      /\ thrown[r].message =
           CASE thrown[r].statusCode = 403 -> PermissionMessage
             [] thrown[r].statusCode = 404 -> NotFoundMessage
             [] thrown[r].statusCode = 429 -> RateLimitMessage
             [] thrown[r].statusCode \in 500..599 -> UnavailableMessage
             [] OTHER -> FailedToMessage(lastError[r])

\* C22 as amended: a classified error carries the status code of the failure and
\* a message given by that code: 401 authentication, 403 permission, 404 not
\* found, 429 rate limit, 500, 502 and 503 temporary unavailability, any other
\* code, the other 5xx codes among them, or no code "Failed to ...".
C22_MessageByStatus ==
  \A r \in AllRuns :
    Classified(r) =>
      /\ thrown[r].originalError = lastError[r]
      /\ thrown[r].statusCode = StatusCodeOf(lastError[r])
      /\ thrown[r].message =
           CASE thrown[r].statusCode = 401 -> AuthenticationMessage
             [] thrown[r].statusCode = 403 -> PermissionMessage
             [] thrown[r].statusCode = 404 -> NotFoundMessage
             [] thrown[r].statusCode = 429 -> RateLimitMessage
             [] thrown[r].statusCode \in {500, 502, 503} -> UnavailableMessage
             [] OTHER -> FailedToMessage(lastError[r])

\* a 504 failure classified with the default wording
C22_Witness ==
  \E r \in AllRuns :
    /\ Classified(r)
    /\ thrown[r].statusCode = 504
    /\ thrown[r].message = "Failed to search tracks: Gateway timeout"

(***************************************************************************)
(* Properties of concurrent calls                                          *)
(***************************************************************************)
\* C23: concurrent executeWithRetry calls are not serialized: whatever the other
\* call is doing, suspended in a backoff wait or awaiting a refresh included, a
\* call that has not ended can take its next step: start, have its operation
\* settle and so return or throw, have its refresh answered, wake from its wait.
C23_CallsNotSerialized ==
  \A r \in AllRuns :
    /\ pc[r] = "start" => ENABLED Start(r)
    /\ pc[r] = "ensureRefresh" => ENABLED EnsureRefreshed(r)
    /\ pc[r] = "calling" => (ENABLED OperationSucceeds(r) /\ ENABLED OperationFails(r))
    /\ pc[r] = "refreshing" => ENABLED Refreshed(r)
    /\ pc[r] = "sleeping" => ENABLED Slept(r)

\* call 1 suspended in its backoff wait while call 2, started, failed and
\* retried, has its operation in flight
C23_Witness ==
  /\ pc[1] = "sleeping"
  /\ Len(waits[1]) = 1
  /\ pc[2] = "calling"
  /\ invocations[2] = 2
  /\ seen[2] = {401}

\* a refresh request of call r is in flight
RefreshInFlight(r) == pc[r] \in {"ensureRefresh", "refreshing"}

\* C24: nothing excludes a second refresh: a call that finds the credential
\* expired in ensureValidToken(), or meets a 401, while the other call's refresh
\* request is still in flight sends its own request, and the other's stays in
\* flight.
C24_RefreshNotExclusive ==
  [][\A r \in AllRuns : \A q \in AllRuns \ {r} :
       (RefreshInFlight(q) /\ Refreshable(tokenMetadata)) =>
         /\ ( /\ pc[r] = "start"
              /\ pc'[r] # "start"
              /\ WithinBuffer(tokenMetadata, now) ) =>
                (pc'[r] = "ensureRefresh" /\ pc'[q] = pc[q])
         /\ ( /\ pc[r] = "calling"
              /\ pc'[r] \notin {"calling", "returned"}
              /\ StatusCodeOf(lastError'[r]) = 401 ) =>
                (pc'[r] = "refreshing" /\ pc'[q] = pc[q])]_vars

\* both calls found the credential expired: two refresh requests in flight
C24_Witness ==
  /\ pc[1] = "ensureRefresh"
  /\ pc[2] = "ensureRefresh"
  /\ tokenMetadata.accessToken = ""

\* C25: the calls of one client share one credential. When the refresh of one
\* call is answered, the credential held for all and the access token of the API
\* client every operation is sent with are those of the response; a call whose
\* ensureValidToken() then finds that credential fresh sends no refresh and
\* resolves with the token the other call's refresh brought.
C25_RefreshSharedByCalls ==
  /\ [](HasAccessToken(tokenMetadata) =>
          spotifyApi.accessToken = tokenMetadata.accessToken)
  /\ [][\A r \in AllRuns :
          /\ (RefreshInFlight(r) /\ pc'[r] # pc[r] /\ tokenResponse' # null) =>
               /\ tokenMetadata'.accessToken = tokenResponse'.access_token
               /\ tokenMetadata'.expiresAt = now + tokenResponse'.expires_in * 1000
               /\ spotifyApi'.accessToken = tokenResponse'.access_token
          /\ ( /\ pc[r] = "start"
               /\ pc'[r] # "start"
               /\ ~WithinBuffer(tokenMetadata, now) ) =>
                 /\ pc'[r] = "calling"
                 /\ ensureToken' = tokenMetadata.accessToken
                 /\ tokenResponse' = null
                 /\ UNCHANGED <<tokenMetadata, spotifyApi>>]_vars

\* call 2 started after the refresh of call 1 was answered with "at2": it sent
\* no refresh and resolved with "at2"
C25_Witness ==
  /\ pc[1] = "calling"
  /\ pc[2] = "calling"
  /\ ensureCalls[1] = 1
  /\ ensureCalls[2] = 1
  /\ invocations[1] = 1
  /\ invocations[2] = 1
  /\ tokenResponse = null
  /\ ensureToken = "at2"
  /\ tokenMetadata.accessToken = "at2"
  /\ spotifyApi.accessToken = "at2"

(***************************************************************************)
(* Termination                                                             *)
(***************************************************************************)
\* the call has ended
Ended(r) == pc[r] \in {"returned", "thrown"}

\* C26: when every invocation of the operation settles, every refresh request is
\* answered and every wait ends, a call that was made ends, either by returning
\* a value or by throwing an error and never both, and stays ended: no sequence
\* of 401, 429 and 503 failures keeps it running forever, since every failure
\* that is retried uses up one of the maxRetries + 1 invocations.
C26_EveryCallEnds ==
  /\ \A r \in AllRuns : (pc[r] # "start") ~> Ended(r)
  /\ [][\A r \in AllRuns :
          /\ pc'[r] = "returned" => (returned'[r] # "" /\ thrown'[r] = null)
          /\ pc'[r] = "thrown" => (returned'[r] = "" /\ thrown'[r] # null)
          /\ ~Ended(r)' => (returned'[r] = "" /\ thrown'[r] = null)
          /\ Ended(r) => pc'[r] = pc[r]
          /\ invocations'[r] <= retryConfig.maxRetries + 1
          /\ refreshCalls'[r] + Len(waits'[r]) <= invocations'[r]]_vars

\* a call ended by its fourth failure after a 401, a 429 and a 503 were retried
C26_Witness ==
  \E r \in AllRuns :
    /\ Ended(r)
    /\ seen[r] = {401, 429, 503}
    /\ invocations[r] = 4
    /\ refreshCalls[r] >= 1
    /\ Len(waits[r]) >= 2

(***************************************************************************)
(* Properties of the tool handlers                                         *)
(***************************************************************************)
\* the text is missing, empty or blank
EmptyText(text) == ~text.given \/ \A i \in 1..Len(text.value) : text.value[i] = " "

\* the limit in force is a number below 1 or above max
LimitOutOfRange(limit, default, max) ==
  LET l == IF limit.given THEN limit.value ELSE Num(default)
  IN  ~l.nan /\ (l.n < 1 \/ l.n > max)

\* the URI is missing or its first parts are not spotify:track:
NotTrackUri(text) ==
  \/ ~text.given
  \/ Len(text.value) < 4
  \/ \E i \in 1..4 : text.value[i] # TrackUriPrefix[i]

\* the input of the request is invalid for the handler it names
InvalidInput(req) ==
  CASE req.name = "searchTracks" ->
         EmptyText(req.text) \/ LimitOutOfRange(req.limit, 10, 50)
    [] req.name = "playTrack" -> NotTrackUri(req.text)
    [] req.name = "playbackControl" ->
         req.action \notin {"play", "pause", "next", "previous"}
    [] req.name = "getUserPlaylists" -> LimitOutOfRange(req.limit, 20, 50)
    [] req.name = "getPlaylistTracks" ->
         EmptyText(req.text) \/ LimitOutOfRange(req.limit, 50, 100)
    [] req.name = "addToQueue" -> NotTrackUri(req.text)
    [] OTHER -> FALSE

\* the messages of the validation errors
ValidationMessages ==
  {"Search query cannot be empty", "Limit must be between 1 and 50",
   "Limit must be between 1 and 100", "Playlist ID cannot be empty",
   "Invalid track URI. Must be in format: spotify:track:xxx",
   "Invalid action. Must be one of: play, pause, next, previous"}

\* C27: a tool handler (searchTracks, playTrack, playbackControl,
\* getUserPlaylists, getPlaylistTracks, addToQueue) called with invalid input (an
\* empty query or playlist id, a limit out of range, a URI that does not start
\* with spotify:track:, an unknown action) throws its validation error and has
\* made no call on the client; called with valid input it makes exactly one.
C27_ValidatedBeforeClient ==
  tool.pc # "idle" =>
    IF InvalidInput(tool.request)
    THEN /\ tool.pc = "thrown"
         /\ tool.error.name = "Error"
         /\ tool.error.message \in ValidationMessages
         /\ tool.calls = <<>>
    ELSE /\ Len(tool.calls) = 1
         /\ tool.calls[1].method =
              (IF tool.request.name = "playbackControl" THEN "controlPlayback"
               ELSE tool.request.name)

\* addToQueue called with an album URI: thrown, the client untouched
C27_Witness ==
  /\ tool.pc = "thrown"
  /\ tool.request.name = "addToQueue"
  /\ tool.request.text = Passed(<<"spotify", ":", "album", ":", "x">>)
  /\ tool.error.message = "Invalid track URI. Must be in format: spotify:track:xxx"
  /\ tool.calls = <<>>

(***************************************************************************)
(* Properties of the freshness of the token in use                         *)
(***************************************************************************)
\* this step of call r invokes the operation
Invokes(r) == invocations'[r] = invocations[r] + 1

\* C28 as stated: at every invocation of the operation, those made after
\* backoff waits included, the held credential is not within 60 seconds of its
\* expiry.
C28_FreshAtEveryInvocation ==
  [][\A r \in AllRuns : Invokes(r) => ~WithinBuffer(tokenMetadata', now')]_vars

\* C28: the credential is checked once, before the loop: at the first
\* invocation of a call whose ensureValidToken() found the held credential
\* fresh and sent no refresh, the credential is not within 60 seconds of its
\* expiry (now < expiresAt - 60 seconds).
C28_FreshAtFirstInvocation ==
  (ensureToken # "" /\ tokenResponse = null) =>
    /\ ~WithinBuffer(tokenMetadata, now)
    /\ ensureToken = tokenMetadata.accessToken
    /\ \E r \in AllRuns :
         /\ pc[r] = "calling"
         /\ invocations[r] = 1
         /\ ensureCalls[r] = 1

\* a first invocation made after the clock advanced, more than 60 seconds
\* before the expiry of the credential found fresh
C28_Witness ==
  /\ ensureToken # ""
  /\ tokenResponse = null
  /\ now > 0
  /\ \E r \in AllRuns : pc[r] = "calling" /\ invocations[r] = 1

(***************************************************************************)
(* Properties of the last attempt and of the 401 path                      *)
(***************************************************************************)
\* the failure call r met last is a 429 or a 503 and met at attempt maxRetries
FailedLastAttempt(r) ==
  /\ lastError[r] # null
  /\ StatusCodeOf(lastError[r]) \in {429, 503}
  /\ attempt[r] = retryConfig.maxRetries
  /\ pc[r] \notin {"calling", "returned"}

\* C29: a 429 or 503 failure at attempt index maxRetries ends the call without
\* a wait: the classified error of that failure is thrown and no wait follows
\* the last invocation, so a call waits at most maxRetries times, and never
\* when maxRetries = 0.
C29_LastAttemptNotWaited ==
  \A r \in AllRuns :
    /\ FailedLastAttempt(r) =>
         /\ pc[r] = "thrown"
         /\ thrown[r] = handleError(lastError[r], OperationName)
         /\ invocations[r] = retryConfig.maxRetries + 1
         /\ Len(waits[r]) + refreshCalls[r] = retryConfig.maxRetries
    /\ pc[r] = "sleeping" => attempt[r] < retryConfig.maxRetries
    /\ Len(waits[r]) <= retryConfig.maxRetries
    /\ Ended(r) => (Len(waits[r]) < invocations[r] \/ invocations[r] = 0)
    /\ retryConfig.maxRetries = 0 => waits[r] = <<>>

\* maxRetries = 0: the first 503 ends the call, nothing waited
C29_Witness ==
  \E r \in AllRuns :
    /\ retryConfig.maxRetries = 0
    /\ pc[r] = "thrown"
    /\ thrown[r].statusCode = 503
    /\ invocations[r] = 1
    /\ waits[r] = <<>>

\* this step of call r is the catch block taking a 401 failure
Caught401(r) ==
  /\ pc[r] = "calling"
  /\ pc'[r] \notin {"calling", "returned"}
  /\ StatusCodeOf(lastError'[r]) = 401

\* C30: handling a 401 failure uses up no backoff delay: from the 401 failure to
\* the next invocation of the operation the call takes no wait and its delay
\* stays as it was, so the first wait for a 429 or a 503 that gives no
\* retry-after, after any number of 401 retries, is min(initialDelayMs,
\* maxDelayMs).
C30_AuthRetryKeepsDelay ==
  [][\A r \in AllRuns :
       /\ Caught401(r) =>
            /\ pc'[r] \in {"refreshing", "thrown"}
            /\ waits'[r] = waits[r]
            /\ delay'[r] = delay[r]
       /\ (pc[r] = "refreshing" /\ pc'[r] # "refreshing") =>
            /\ pc'[r] \in {"calling", "thrown"}
            /\ pc'[r] = "calling" => invocations'[r] = invocations[r] + 1
            /\ waits'[r] = waits[r]
            /\ delay'[r] = delay[r]
       /\ (waits[r] = <<>> /\ waits'[r] # <<>>) =>
            /\ Len(waits'[r]) = 1
            /\ delay[r] = retryConfig.initialDelayMs
            /\ ~waits'[r][1].hinted =>
                 waits'[r][1].ms =
                   (IF retryConfig.initialDelayMs <= retryConfig.maxDelayMs
                    THEN retryConfig.initialDelayMs
                    ELSE retryConfig.maxDelayMs)]_vars

\* two 401 retries, then the first wait, still of initialDelayMs
C30_Witness ==
  \E r \in AllRuns :
    /\ pc[r] = "sleeping"
    /\ refreshCalls[r] = 2
    /\ Len(waits[r]) = 1
    /\ ~waits[r][1].hinted
    /\ waits[r][1].ms = retryConfig.initialDelayMs

(***************************************************************************)
(* Properties of the credential held by SpotifyAuth                        *)
(***************************************************************************)
\* C31: ensureValidToken() never fails with the no-access-token error, neither
\* after its refresh succeeded nor when the credential was fresh on entry: no
\* credential left by the constructor, by a successful exchange or by a
\* successful refresh is fresh without an access token.
C31_NoAccessTokenErrorUnreachable ==
  /\ \A r \in AllRuns :
       /\ authError[r] # NoAccessTokenError
       /\ thrown[r] # NoAccessTokenError
  /\ (tokenMetadata # null /\ tokenMetadata.accessToken = "") =>
       /\ tokenMetadata.expiresAt = 0
       /\ isTokenExpired(tokenMetadata, now)

\* ensureValidToken() resolved after its own refresh succeeded
C31_Witness ==
  /\ ensureToken # ""
  /\ tokenResponse # null
  /\ \E r \in AllRuns : ensureCalls[r] = 1 /\ pc[r] = "calling" /\ refreshCalls[r] = 0

\* C32 as stated: after every successful exchange or refresh the refresh token
\* of the API client, the one the next refresh request sends, is the refresh
\* token of the held credential; a new refresh token brought by a refresh
\* response is installed in the API client.
C32_ClientRefreshTokenInstalled ==
  tokenMetadata # null => spotifyApi.refreshToken = tokenMetadata.refreshToken

\* the credential held: the metadata and what the API client holds
Credential == <<tokenMetadata, spotifyApi>>

\* C33: a failed exchangeCodeForToken() or a failed refreshAccessToken() throws
\* to its caller (the wrapped failure of the request, or the no-refresh-token
\* error) and leaves the held credential, accessToken, refreshToken and
\* expiresAt, as it was before the call; the credential changes only when a
\* request is answered with a token response.
C33_FailureKeepsCredential ==
  [][/\ (authCall'.pc = "thrown" /\ authCall' # authCall) =>
          /\ Credential' = Credential
          /\ authCall'.response = null
          /\ authCall'.error \in
               (IF authCall'.method = "exchangeCodeForToken"
                THEN {ExchangeFailedError(m) : m \in RemoteAuthFailures}
                ELSE {NoRefreshTokenError} \cup
                     {RefreshFailedError(m) : m \in RemoteAuthFailures})
     /\ (authCall.pc \in {"exchanging", "refreshing"} /\ authCall' # authCall) =>
          authCall'.pc \in {"returned", "thrown"}
     /\ Credential' # Credential =>
          /\ authCall.pc \in {"exchanging", "refreshing"}
          /\ authCall'.pc = "returned"
          /\ authCall'.error = null]_vars

\* a refresh rejected by the remote after an exchange had left a credential
C33_Witness ==
  /\ authCall.pc = "thrown"
  /\ authCall.method = "refreshAccessToken"
  /\ authCall.error = RefreshFailedError("invalid_grant")
  /\ tokenMetadata # null
  /\ tokenMetadata.accessToken = "at2"
  /\ tokenMetadata.refreshToken = "rt2"

(***************************************************************************)
(* Properties of a persistently rejected token                             *)
(***************************************************************************)
\* call r ended after 401 failures only, every refresh it asked for answered
Only401(r) ==
  /\ Ended(r)
  /\ seen[r] = {401}
  /\ authError[r] = null
  /\ pc[r] = "thrown"

C35_ReturnedTokenFresh ==
  ensureToken # "" =>
    /\ ensureToken = tokenMetadata.accessToken
    /\ ~isTokenExpired(tokenMetadata, now)

\* C35: whenever ensureValidToken() returns, it returns the held access token;
\* the credential is more than 60 seconds from its expiry at that instant when
\* no refresh was needed or the refresh response carried an expires_in above 60
\* seconds, and is within them, isTokenExpired() being true, when the response
\* carried an expires_in of 60 seconds or less.
C35_ReturnedTokenFreshUnlessShortLived ==
  ensureToken # "" =>
    /\ tokenMetadata # null
    /\ ensureToken = tokenMetadata.accessToken
    /\ IF tokenResponse = null
       THEN ~WithinBuffer(tokenMetadata, now)
       ELSE /\ ensureToken = tokenResponse.access_token
            /\ tokenMetadata.expiresAt = now + tokenResponse.expires_in * 1000
            /\ WithinBuffer(tokenMetadata, now) <=> tokenResponse.expires_in <= 60

\* a refresh answered with expires_in 90 while the clock stood at 60000
C35_Witness ==
  /\ ensureToken = "at2"
  /\ tokenResponse # null
  /\ tokenResponse.expires_in = 90
  /\ now = 60000
  /\ tokenMetadata.expiresAt = 150000

(***************************************************************************)
(* Properties of the retry policy and of the backoff state                 *)
(***************************************************************************)
\* this step of call r enters the retry loop
EntersLoop(r) == pc[r] \in {"start", "ensureRefresh"} /\ pc'[r] = "calling"

\* C36: the backoff state belongs to the call and the retry policy is never
\* changed: every call enters its loop with delay = initialDelayMs and attempt
\* index 0 whatever earlier or concurrent calls have reached, a step of one call
\* leaves the attempt index and the delay of every other call alone, and no
\* step changes maxRetries, initialDelayMs, maxDelayMs or backoffMultiplier.
C36_BackoffStatePerCall ==
  [][/\ retryConfig' = retryConfig
     /\ \A r \in AllRuns :
          /\ EntersLoop(r) =>
               /\ attempt'[r] = 0
               /\ delay'[r] = retryConfig.initialDelayMs
               /\ lastError'[r] = null
          /\ (attempt'[r] # attempt[r] \/ delay'[r] # delay[r]) =>
               \A q \in AllRuns \ {r} :
                 /\ attempt'[q] = attempt[q]
                 /\ delay'[q] = delay[q]
                 /\ pc'[q] = pc[q]]_vars

\* the second call has just entered its loop, the first is at attempt 1 with
\* its delay doubled
C36_Witness ==
  /\ pc[2] = "calling"
  /\ attempt[2] = 0
  /\ invocations[2] = 1
  /\ delay[2] = retryConfig.initialDelayMs
  /\ attempt[1] = 1
  /\ delay[1] = 2 * retryConfig.initialDelayMs

(***************************************************************************)
(* Properties of a client seeded with a refresh token                      *)
(***************************************************************************)
\* the credential the constructor leaves when given a refresh token
Seeded(meta) ==
  /\ meta # null
  /\ meta.accessToken = ""
  /\ meta.refreshToken # ""
  /\ meta.expiresAt = 0

\* C37: a client constructed with a refresh token starts with a credential that
\* is expired and has no access token; a call that finds it sends one refresh
\* request before it invokes the operation and never a second one from
\* ensureValidToken(), and a call made while the refreshed token is more than 60
\* seconds from its expiry sends none.
C37_SeededClientRefreshesOnce ==
  /\ Seeded(tokenMetadata)
  /\ isTokenExpired(tokenMetadata, now)
  /\ spotifyApi.refreshToken = tokenMetadata.refreshToken
  /\ [][\A r \in AllRuns :
          /\ (pc[r] = "start" /\ pc'[r] # "start" /\ Seeded(tokenMetadata)) =>
               /\ pc'[r] = "ensureRefresh"
               /\ invocations'[r] = 0
               /\ ensureCalls'[r] = 1
               /\ UNCHANGED <<tokenMetadata, spotifyApi>>
          /\ pc'[r] = "ensureRefresh" => (pc[r] \in {"start", "ensureRefresh"} /\ invocations'[r] = 0)
          /\ (pc[r] = "ensureRefresh" /\ pc'[r] = "calling") =>
               /\ invocations'[r] = 1
               /\ tokenResponse' # null
               /\ tokenMetadata'.accessToken = tokenResponse'.access_token
               /\ ~Seeded(tokenMetadata')
          /\ (pc[r] = "start" /\ pc'[r] # "start" /\ ~WithinBuffer(tokenMetadata, now)) =>
               /\ pc'[r] = "calling"
               /\ tokenResponse' = null
               /\ ensureToken' = tokenMetadata.accessToken
               /\ UNCHANGED <<tokenMetadata, spotifyApi>>]_vars

\* the second call starts after the first call's refresh brought a token good
\* for 90 seconds: it invokes the operation at once
C37_Witness ==
  /\ pc[1] = "calling"
  /\ invocations[1] = 1
  /\ lastError[1] = null
  /\ pc[2] = "calling"
  /\ invocations[2] = 1
  /\ ensureCalls[2] = 1
  /\ ensureToken # ""
  /\ tokenResponse = null
  /\ tokenMetadata.expiresAt = 90000

====
